---- MODULE Spec2Model ----
(***************************************************************************)
(* Grouped, socket-aware calibration runner (3P3W.py): the resumable       *)
(* orchestrator run_quant_compensation_3p4w, calibrate_group_on_socket and *)
(* the two-phase poll poll_ready_all_localpairs, together with the two     *)
(* persisted documents progress.json and problematic_meters.json.          *)
(*                                                                         *)
(* Time is counted in ticks of 0.2 s, the largest unit in which every      *)
(* sleep of the poll loop (1.0 s, 1.2 s) is a whole number.                *)
(* A write of a persisted document is taken as atomic.                     *)
(***************************************************************************)
EXTENDS Integers, Sequences, FiniteSets, TLC

\* ------------------------------------------------------------------------
\* Configuration
\* ------------------------------------------------------------------------
\* Meters served by one socket (10 on the bench; kept small here).
METERS_PER_SOCKET == 2

\* config.METER_COUNT, the operator's answer to the meter-count dialog.
METER_COUNT == 3

\* Number of entries of config.METER_CONNECTIONS.
NumSockets == 2

\* The module config as 3P3W.py reads it: METER_CONNECTIONS, a list of
\* sockets (each written as its 0-based place in the list of the bench), and
\* METER_COUNT.
VARIABLE config

\* config.py as it is in the repository.
Configured ==
    [METER_CONNECTIONS |-> [i \in 1..NumSockets |-> i - 1],
     METER_COUNT |-> METER_COUNT]

\* (config.SOCKET_IP, config.SOCKET_PORT) is the first socket of the bench.
DefaultSocket == 0

\* get_all_socket_entries(): the configured sockets, or the default one.
get_all_socket_entries ==
    IF config.METER_CONNECTIONS # << >> THEN config.METER_CONNECTIONS
    ELSE <<DefaultSocket>>

SocketIdx == 0..(NumSockets - 1)

Min(a, b) == IF a < b THEN a ELSE b

\* ------------------------------------------------------------------------
\* Steps and groups
\* ------------------------------------------------------------------------
\* code is {} for None and {n} for the integer n.
Step(desc, code, wait, input_change, busy_poll) ==
    [desc |-> desc, code |-> code, wait |-> wait,
     input_change |-> input_change, busy_poll |-> busy_poll]

STEPS == <<
    Step("Change Connection per 3P3W",    {},     0, FALSE, FALSE),
    Step("Turn ON Calmet - Input Step 1", {},     0, FALSE, FALSE),
    Step("Unlock Calibration",            {2023}, 0, FALSE, FALSE),
    Step("Import Energy Quantization",    {904},  1, FALSE, TRUE),
    Step("Apply Input Step 2",            {},     0, FALSE, FALSE),
    Step("Export Energy Quantization",    {905},  1, FALSE, TRUE),
    Step("Apply Input Step 3",            {},     0, FALSE, FALSE),
    Step("Import Current Quantization",   {906},  1, FALSE, TRUE),
    Step("Apply Input Step 4",            {},     0, FALSE, FALSE),
    Step("Export Current Quantization",   {907},  1, FALSE, TRUE),
    Step("Export Voltage Quantization",   {908},  1, FALSE, TRUE),
    Step("Save Coefficient in EEPROM",    {909},  2, FALSE, FALSE) >>

\* Python slice STEPS[a:b] (0-based, b exclusive).
Slice(s, a, b) == SubSeq(s, a + 1, b)

CAL_GROUPS == <<
    Slice(STEPS, 0, 4),
    Slice(STEPS, 4, 6),
    Slice(STEPS, 6, 8),
    Slice(STEPS, 8, 12) >>

NumGroups == Len(CAL_GROUPS)

\* The table with input_change set on "Turn ON Calmet - Input Step 1" and on
\* "Apply Input Step 2" (the repository sets the flag on no step), and with
\* busy_poll moved from "Import Current Quantization" to the step before
\* it, "Apply Input Step 3", which has no code (the repository sets
\* busy_poll only on steps with a code).
GatedSteps ==
    [k \in 1..Len(STEPS) |->
        IF k \in {2, 5} THEN [STEPS[k] EXCEPT !.input_change = TRUE]
        ELSE IF k \in {7, 8}
            THEN [STEPS[k] EXCEPT !.busy_poll = ~STEPS[k].busy_poll]
        ELSE STEPS[k]]

GatedGroups == <<
    Slice(GatedSteps, 0, 4),
    Slice(GatedSteps, 4, 6),
    Slice(GatedSteps, 6, 8),
    Slice(GatedSteps, 8, 12) >>

IsInt(code) == code # {}

CodeOf(code) == CHOOSE n \in code : TRUE

\* ------------------------------------------------------------------------
\* Persisted documents
\* ------------------------------------------------------------------------
\* progress.json: the bookmark and the done-keys that are true.
NoProgressFile == [exists |-> FALSE, cur |-> 0, done |-> {}]

\* problematic_meters.json: a sorted list of global meter numbers.
NoProblematicFile == [exists |-> FALSE, meters |-> {}]

load_progress(file) ==
    IF file.exists THEN [cur |-> file.cur, done |-> file.done]
    ELSE [cur |-> 1, done |-> {}]

\* The document written with the bookmark alone.
save_progress_BookmarkOnly(prog) == [exists |-> TRUE, cur |-> prog.cur, done |-> {}]

\* json.dump(state, f): the whole of progress replaces the document.
save_progress(prog) == [exists |-> TRUE, cur |-> prog.cur, done |-> prog.done]

load_problematic(file) == IF file.exists THEN file.meters ELSE {}

save_problematic(problematic_set) == [exists |-> TRUE, meters |-> problematic_set]

\* The done-key of (group, socket): the key string is built from the group
\* number, the ip and the port, so distinct (group, socket) give distinct keys.
per_socket_done_key(idx, grp) == <<grp, idx>>

\* ------------------------------------------------------------------------
\* Sockets and meter ranges
\* ------------------------------------------------------------------------
\* The range of the socket not cut at METER_COUNT.
meters_for_socket_index_Unclamped(idx) ==
    LET start == idx * METERS_PER_SOCKET + 1
    IN [k \in 1..METERS_PER_SOCKET |-> start + k - 1]

\* The list of GLOBAL meter numbers of socket index idx.
meters_for_socket_index(idx) ==
    LET total == config.METER_COUNT
        start == idx * METERS_PER_SOCKET + 1
        end   == Min(total, start + METERS_PER_SOCKET - 1)
    IN IF start > end THEN << >>
       ELSE [k \in 1..(end - start + 1) |-> start + k - 1]

\* The global number used as the local id.
global_to_local_Identity(g, global_meter_list) == g

global_to_local(g, global_meter_list) == g - global_meter_list[1] + 1

\* The filter on problematic_set left out.
InitialActivePairs_NoFilter(global_meter_list, problematic_set) ==
    [k \in 1..Len(global_meter_list) |->
        <<global_meter_list[k],
          global_to_local(global_meter_list[k], global_meter_list)>>]

\* active_pairs as first computed: the socket's meters, rebased, minus the
\* problematic ones.
InitialActivePairs(global_meter_list, problematic_set) ==
    LET pairs == [k \in 1..Len(global_meter_list) |->
                    <<global_meter_list[k],
                      global_to_local(global_meter_list[k], global_meter_list)>>]
    IN SelectSeq(pairs, LAMBDA p : p[1] \notin problematic_set)

\* active_pairs left as it was.
RemoveProblematic_Keeps(pairs, new_problematic_set) == pairs

\* No pair kept once a poll found a meter problematic.
RemoveProblematic_All(pairs, new_problematic_set) == << >>

\* active_pairs after a poll found meters problematic.
RemoveProblematic(pairs, new_problematic_set) ==
    SelectSeq(pairs, LAMBDA p : p[1] \notin new_problematic_set)

\* steps.build_simple_mcw accepts meter numbers 0..METER_COUNT only.
ValidMeterNum(meter_num) ==
    ~(meter_num < 0 \/ meter_num > config.METER_COUNT)

\* ------------------------------------------------------------------------
\* Poll parameters (defaults of poll_ready_all_localpairs), in ticks
\* ------------------------------------------------------------------------
Sec(n) == n * 5

\* delay=1.2 s between two rounds.
delay == 6

first_phase == Sec(30)

second_phase == Sec(40)

total_timeout == first_phase + second_phase

\* time.sleep(1.0) after a poll that did not show the ready response.
BusySleep == Sec(1)

\* transport.recv_all(2.0) returns at the latest when its timeout is over.
RecvTimeout == Sec(2)

\* ------------------------------------------------------------------------
\* State
\* ------------------------------------------------------------------------
VARIABLES
    progressFile,       \* progress.json
    problematicFile,    \* problematic_meters.json
    pc,                 \* position of the running process, "idle" when none
    progress,           \* run_quant_compensation_3p4w: progress
    problematic,        \* run_quant_compensation_3p4w: problematic
    current_group,      \* run_quant_compensation_3p4w: current_group
    sockPos,            \* position of `for (ip, port) in sockets` (1-based)
    transportOpen,      \* indices of the sockets whose transport is open
    active_pairs,       \* calibrate_group_on_socket: active_pairs
    new_problematic,    \* calibrate_group_on_socket: new_problematic
    stepPos,            \* position of `for step in group_steps` (1-based)
    todo,               \* rest of `for g, local in list(active_pairs)`
    written,            \* the writes of the running step that went out
    pending,            \* poll_ready_all_localpairs: pending (local -> global)
    pollTodo,           \* rest of `for local_id in list(pending.keys())`
    poll_problematic,   \* poll_ready_all_localpairs: problematic
    clock,              \* time.time() - start_time of the running poll
    sent,               \* the command the last step put on the wire, if any
    recvd,              \* the segments received in reply to it
    exitStatus,         \* how the last invocation ended
    groups,             \* the table of the groups the runner works with
    groupPrompts,       \* confirmations asked for the group by this invocation
    socketPrompts,      \* confirmations asked per socket by this invocation
    loadedProgress,     \* progress as this invocation loaded it
    startProgress,      \* progress as loaded and normalised by this invocation
    startProblematic,   \* problematic as loaded by this invocation
    visits,             \* per socket: transports opened in this invocation
    failed,             \* sockets whose processing raised in this invocation
    eliminated,         \* meters the polls of this invocation returned
    seeded,             \* the pairs the running poll was called with
    readySeen,          \* local ids that answered ready in the running poll
    call,               \* the last call of a function of steps.py or of
                        \* decode_escapes: its name, arguments and result
    caldone,            \* the process running caldone.py: run_caldone
    reader,             \* the process running readparameters.py: read_meter
    error_run           \* voltage_impulse_error.py: error_progress.json and
                        \* the process running main

durable == <<progressFile, problematicFile>>

mainVars == <<progress, problematic, current_group, sockPos, transportOpen>>

socketVars == <<active_pairs, new_problematic, stepPos, todo, written>>

pollVars == <<pending, pollTodo, poll_problematic, clock, seeded, readySeen>>

\* The commands' codec and the two other scripts, which the runner leaves
\* alone.
toolVars == <<call, caldone, reader, error_run>>

NoCall == [fn |-> "none"]

NotRunning == [pc |-> "idle"]

\* error_progress.json does not exist and main has not been started.
NoErrorRun ==
    [pc |-> "idle",
     file |-> [exists |-> FALSE, completed_step |-> 0, results |-> << >>,
               steps |-> {}],
     state |-> << >>, step |-> 0, meter |-> 0, answering |-> {},
     sent |-> {}, ran |-> {}, exit |-> "none", returned |-> 0,
     loaded |-> 0]

NoTools ==
    /\ call = NoCall
    /\ caldone = NotRunning
    /\ reader = NotRunning
    /\ error_run = NoErrorRun

historyVars == <<toolVars, config, groups, groupPrompts, socketPrompts, loadedProgress, startProgress, startProblematic, visits, failed,
                 eliminated>>

vars == <<durable, pc, mainVars, socketVars, pollVars, sent, recvd, exitStatus,
          historyVars>>

EmptyMap == << >>

NoPoll ==
    /\ pending = EmptyMap
    /\ pollTodo = << >>
    /\ poll_problematic = {}
    /\ clock = 0
    /\ seeded = << >>
    /\ readySeen = {}

NoSocketRun ==
    /\ active_pairs = << >>
    /\ new_problematic = {}
    /\ stepPos = 0
    /\ todo = << >>
    /\ written = << >>

\* No process has run yet; progress.json is `file`, the configuration is
\* conf and the table of the groups is table.
InitState(file, conf, table) ==
    /\ progressFile = file
    /\ config = conf
    /\ NoTools
    /\ groups = table
    /\ groupPrompts = 0
    /\ socketPrompts = [s \in SocketIdx |-> 0]
    /\ problematicFile = NoProblematicFile
    /\ pc = "idle"
    /\ progress = load_progress(file)
    /\ problematic = {}
    /\ current_group = 1
    /\ sockPos = 1
    /\ transportOpen = {}
    /\ NoSocketRun
    /\ NoPoll
    /\ sent = {} /\ recvd = << >>
    /\ exitStatus = "none"
    /\ loadedProgress = load_progress(file)
    /\ startProgress = load_progress(file)
    /\ startProblematic = {}
    /\ visits = [s \in SocketIdx |-> 0]
    /\ failed = {}
    /\ eliminated = {}

\* Neither document exists.
Init == InitState(NoProgressFile, Configured, CAL_GROUPS)

\* ------------------------------------------------------------------------
\* run_quant_compensation_3p4w: start of an invocation
\* ------------------------------------------------------------------------
\* The bookmark check of lines 350-355 on the loaded document.
NormalizeProgress(loaded) ==
    IF loaded.cur < 1 \/ loaded.cur > Len(CAL_GROUPS)
    THEN [loaded EXCEPT !.cur = 1]
    ELSE loaded

\* The reset kept in memory only.
ProgressFileAfterReset_NotSaved(file, loaded, prog) == file

\* save_progress(progress) inside the `if` of lines 351-355.
ProgressFileAfterReset(file, loaded, prog) ==
    IF prog # loaded THEN save_progress(prog) ELSE file

\* The test of the first step only.
NeedsGroupPrompt_FirstStep(steps) == steps[1].input_change

\* any(s.get("input_change", False) for s in group_steps)
NeedsGroupPrompt(steps) == \E k \in 1..Len(steps) : steps[k].input_change

\* Lines 339-345: what makes the runner raise RuntimeError at once.
ConfigError ==
    \/ Len(get_all_socket_entries) = 0
    \/ config.METER_COUNT <= 0

\* Lines 336-363; with a group that asks for it the process then stands in
\* input() of line 363.
Start ==
    /\ pc = "idle"
    /\ ~ConfigError
    /\ LET loaded == load_progress(progressFile)
           prog   == NormalizeProgress(loaded)
       IN /\ progress' = prog
          /\ IF NeedsGroupPrompt(groups[prog.cur])
             THEN pc' = "group_prompt" /\ groupPrompts' = 1
             ELSE pc' = "sockets" /\ groupPrompts' = 0
          /\ current_group' = prog.cur
          /\ progressFile' = ProgressFileAfterReset(progressFile, loaded, prog)
          /\ loadedProgress' = loaded
          /\ startProgress' = prog
    /\ problematic' = load_problematic(problematicFile)
    /\ startProblematic' = load_problematic(problematicFile)
    /\ sockPos' = 1
    /\ socketPrompts' = [s \in SocketIdx |-> 0]
    /\ exitStatus' = "running"
    /\ visits' = [s \in SocketIdx |-> 0]
    /\ failed' = {}
    /\ eliminated' = {}
    /\ sent' = {} /\ recvd' = << >>
    /\ UNCHANGED <<problematicFile, transportOpen, socketVars, pollVars, toolVars, config,
                   groups>>

\* The operator pressed Enter at the prompt of line 363.
GroupConfirm ==
    /\ pc = "group_prompt"
    /\ pc' = "sockets"
    /\ sent' = {} /\ recvd' = << >>
    /\ UNCHANGED <<durable, mainVars, socketVars, pollVars, exitStatus,
                   historyVars>>

\* The runner started with a configuration it refuses: RuntimeError, the
\* interpreter ends with a traceback and a non-zero status.
StartConfigError ==
    /\ pc = "idle"
    /\ ConfigError
    /\ exitStatus' = "error"
    /\ sent' = {} /\ recvd' = << >>
    /\ UNCHANGED <<durable, pc, mainVars, socketVars, pollVars, historyVars>>

\* ------------------------------------------------------------------------
\* run_quant_compensation_3p4w: the loop over the sockets
\* ------------------------------------------------------------------------
\* The list of the sockets walked from its end.
SocketAt_Reversed(pos) ==
    get_all_socket_entries[Len(get_all_socket_entries) + 1 - pos]

\* `for (ip, port) in sockets`: the socket of the pos-th pass.
SocketAt(pos) == get_all_socket_entries[pos]

CurrentSocket == SocketAt(sockPos)

CurrentKey == per_socket_done_key(CurrentSocket, current_group)

\* The done-flag never looked at.
AlreadyDone_Never(prog, key) == FALSE

\* progress.get(key)
AlreadyDone(prog, key) == key \in prog.done

\* The save of the done-flag left to the end of the invocation.
ProgressFileAfterDone_Deferred(file, prog) == file

\* save_progress(progress) right after progress[key] = True.
ProgressFileAfterDone(file, prog) == save_progress(prog)

\* The finally-branch without the close.
CloseTransport_Leak(open, idx) == open

\* transport.close() of the finally-branch.
CloseTransport(open, idx) == open \ {idx}

\* Only the socket without meters returns early.
NothingToDo_ListOnly(global_meter_list, pairs) == global_meter_list = << >>

\* The two early returns of calibrate_group_on_socket (lines 284-295).
NothingToDo(global_meter_list, pairs) ==
    global_meter_list = << >> \/ pairs = << >>

group_steps == groups[current_group]

\* progress[key] = True
MarkDone(prog, key) == [prog EXCEPT !.done = @ \cup {key}]

\* The new meters saved in place of the union.
MergeProblematic_Replace(problematic_set, new_problems) == new_problems

\* problematic.update(new_problems)
MergeProblematic(problematic_set, new_problems) == problematic_set \cup new_problems

\* The done-flag set before the steps ran, so that it survives a raise.
ProgressAfterError_MarksDone(prog, key) == [prog EXCEPT !.done = @ \cup {key}]

\* What the except-branch leaves in progress for the socket that raised.
ProgressAfterError(prog, key) == prog

\* Where the loop over the sockets goes on after the except-branch.
SockPosAfterError(pos) == pos + 1

ResetSocketRun ==
    /\ active_pairs' = << >>
    /\ new_problematic' = {}
    /\ stepPos' = 0
    /\ todo' = << >>
    /\ written' = << >>

ResetPoll ==
    /\ pending' = EmptyMap
    /\ pollTodo' = << >>
    /\ poll_problematic' = {}
    /\ clock' = 0
    /\ seeded' = << >>
    /\ readySeen' = {}

\* Lines 378-384 and the finally-branch: calibrate_group_on_socket returned
\* new_problems without raising.
CompleteSocket(new_problems) ==
    LET merged == IF new_problems # {}
                  THEN MergeProblematic(problematic, new_problems)
                  ELSE problematic
        prog   == MarkDone(progress, CurrentKey)
    IN /\ problematic' = merged
       /\ problematicFile' = IF new_problems # {} THEN save_problematic(merged)
                             ELSE problematicFile
       /\ progress' = prog
       /\ progressFile' = ProgressFileAfterDone(progressFile, prog)
       /\ transportOpen' = CloseTransport(transportOpen, CurrentSocket)
       /\ sockPos' = sockPos + 1
       /\ pc' = "sockets"
       /\ ResetSocketRun
       /\ ResetPoll
       /\ UNCHANGED <<current_group, exitStatus, toolVars, config, groups, groupPrompts,
                   socketPrompts, loadedProgress, startProgress,
                      startProblematic, failed, eliminated>>

\* Lines 385-393: the except-branch and the finally-branch.
FailSocket ==
    /\ progress' = ProgressAfterError(progress, CurrentKey)
    /\ failed' = failed \cup {CurrentSocket}
    /\ transportOpen' = CloseTransport(transportOpen, CurrentSocket)
    /\ sockPos' = SockPosAfterError(sockPos)
    /\ pc' = "sockets"
    /\ ResetSocketRun
    /\ ResetPoll
    /\ UNCHANGED <<durable, problematic, current_group, exitStatus, toolVars, config, groups, groupPrompts,
                   socketPrompts, loadedProgress,
                   startProgress, startProblematic, visits, eliminated>>

SkipSocket ==
    /\ pc = "sockets"
    /\ sockPos <= Len(get_all_socket_entries)
    /\ AlreadyDone(progress, CurrentKey)
    /\ sockPos' = sockPos + 1
    /\ sent' = {} /\ recvd' = << >>
    /\ UNCHANGED <<durable, pc, progress, problematic, current_group,
                   transportOpen, socketVars, pollVars, exitStatus, historyVars>>

\* get_transport and the head of calibrate_group_on_socket (lines 281-298).
OpenSocket ==
    /\ pc = "sockets"
    /\ sockPos <= Len(get_all_socket_entries)
    /\ ~AlreadyDone(progress, CurrentKey)
    /\ sent' = {} /\ recvd' = << >>
    /\ LET global_meter_list == meters_for_socket_index(CurrentSocket)
           pairs == InitialActivePairs(global_meter_list, problematic)
       IN IF NothingToDo(global_meter_list, pairs)
          THEN /\ CompleteSocket({})
               /\ visits' = [visits EXCEPT ![CurrentSocket] = @ + 1]
          ELSE /\ transportOpen' = transportOpen \cup {CurrentSocket}
               /\ visits' = [visits EXCEPT ![CurrentSocket] = @ + 1]
               /\ active_pairs' = pairs
               /\ new_problematic' = {}
               /\ stepPos' = 1
               /\ todo' = << >>
               /\ written' = << >>
               /\ pc' = "steps"
               /\ UNCHANGED <<durable, progress, problematic, current_group,
                              sockPos, pollVars, exitStatus, toolVars, config,
                              groups, groupPrompts,
                   socketPrompts, loadedProgress, startProgress,
                              startProblematic, failed, eliminated>>

\* ------------------------------------------------------------------------
\* calibrate_group_on_socket: the loop over the steps
\* ------------------------------------------------------------------------
GlobalOf(pair) == pair[1]

LocalOf(pair) == pair[2]

\* A command on the wire of socket idx: MCW<local>,<pdu>.  kind is "write"
\* (code written to ADDR_9601) or "poll" (read of REG_CAL_DONE).
Cmd(idx, local, kind, code) ==
    [sock |-> idx, local |-> local, kind |-> kind, code |-> code]

\* pending = {local: global_ for (global_, local) in global_local_pairs}
PendingOf(pairs) ==
    LET locals == {LocalOf(pairs[k]) : k \in 1..Len(pairs)}
        last(l) == CHOOSE k \in 1..Len(pairs) :
                      /\ LocalOf(pairs[k]) = l
                      /\ \A j \in 1..Len(pairs) : LocalOf(pairs[j]) = l => j <= k
    IN [l \in locals |-> GlobalOf(pairs[last(l)])]

\* time.sleep(7), then the first lines of poll_ready_all_localpairs.
BeginPoll ==
    /\ pending' = PendingOf(active_pairs)
    /\ seeded' = active_pairs
    /\ poll_problematic' = {}
    /\ readySeen' = {}
    /\ clock' = 0
    /\ pollTodo' = << >>
    /\ pc' = "poll_loop"

\* `list(active_pairs)` of line 311 without its first pair.
PreWriteList_SkipFirst(pairs) == SubSeq(pairs, 2, Len(pairs))

\* `list(active_pairs)` of line 311: the pairs the pre-busy write goes to.
PreWriteList(pairs) == pairs

\* `list(active_pairs)` of line 327 gone through twice.
WriteList_Twice(pairs) == pairs \o pairs

\* `list(active_pairs)` of line 327: the pairs write_code_local goes to.
WriteList(pairs) == pairs

\* Lines 307-331, one step after its prompt, if any: what the step starts.
StepBody(step) ==
    /\ sent' = {} /\ recvd' = << >>
    /\ written' = << >>
    /\    IF step.busy_poll
          THEN IF IsInt(step.code)
               THEN /\ pc' = "prewrite"
                    /\ todo' = PreWriteList(active_pairs)
                    /\ UNCHANGED <<stepPos, pollVars>>
               ELSE /\ BeginPoll
                    /\ UNCHANGED <<stepPos, todo>>
          ELSE IF IsInt(step.code)
               THEN /\ pc' = "write"
                    /\ todo' = WriteList(active_pairs)
                    /\ UNCHANGED <<stepPos, pollVars>>
               ELSE /\ stepPos' = stepPos + 1
                    /\ pc' = "steps"
                    /\ UNCHANGED <<todo, pollVars>>
    /\ UNCHANGED <<durable, mainVars, active_pairs, new_problematic,
                   exitStatus, historyVars>>

\* Lines 300-305: the next step of the group; a step with input_change
\* first asks the operator and stands in input().
RunStep ==
    /\ pc = "steps"
    /\ stepPos <= Len(group_steps)
    /\ IF group_steps[stepPos].input_change
       THEN /\ pc' = "step_prompt"
            /\ socketPrompts' = [socketPrompts EXCEPT ![CurrentSocket] = @ + 1]
            /\ sent' = {} /\ recvd' = << >>
            /\ UNCHANGED <<durable, mainVars, socketVars, pollVars, exitStatus,
                           toolVars, config, groups, groupPrompts, loadedProgress,
                           startProgress, startProblematic, visits, failed,
                           eliminated>>
       ELSE StepBody(group_steps[stepPos])

\* The operator pressed Enter at the prompt of line 305.
StepConfirm ==
    /\ pc = "step_prompt"
    /\ StepBody(group_steps[stepPos])

\* return new_problematic, back in run_quant_compensation_3p4w without raise.
ReturnFromGroup ==
    /\ pc = "steps"
    /\ stepPos > Len(group_steps)
    /\ sent' = {} /\ recvd' = << >>
    /\ CompleteSocket(new_problematic)
    /\ UNCHANGED visits

\* The command of the write loops (lines 311-314 and 327-328).
WriteCmd == Cmd(CurrentSocket, LocalOf(Head(todo)), "write",
                group_steps[stepPos].code)

\* One send_and_log of a write loop that returns.
WriteSend ==
    /\ pc \in {"prewrite", "write"}
    /\ todo # << >>
    /\ ValidMeterNum(LocalOf(Head(todo)))
    /\ sent' = {WriteCmd}
    /\ recvd' = << >>
    /\ todo' = Tail(todo)
    /\ written' = Append(written, WriteCmd)
    /\ UNCHANGED <<durable, pc, mainVars, active_pairs, new_problematic,
                   stepPos, pollVars, exitStatus, historyVars>>

\* One send_and_log of a write loop that raises: in build_simple_mcw or in
\* send_mcw (nothing on the wire), or in recv_all (the command is out).
WriteRaise ==
    /\ pc \in {"prewrite", "write"}
    /\ todo # << >>
    /\ \/ sent' = {}
       \/ /\ ValidMeterNum(LocalOf(Head(todo)))
          /\ sent' = {WriteCmd}
    /\ recvd' = << >>
    /\ FailSocket

\* The write loop is through.
WriteLoopEnd ==
    /\ pc \in {"prewrite", "write"}
    /\ todo = << >>
    /\ sent' = {} /\ recvd' = << >>
    /\ IF pc = "prewrite"
       THEN /\ BeginPoll
            /\ UNCHANGED stepPos
       ELSE /\ pc' = "steps"
            /\ stepPos' = stepPos + 1
            /\ UNCHANGED pollVars
    /\ UNCHANGED <<durable, mainVars, active_pairs, new_problematic, todo,
                   written, exitStatus, historyVars>>

\* ------------------------------------------------------------------------
\* poll_ready_all_localpairs
\* ------------------------------------------------------------------------
\* How long one send_and_log takes: the reply is there at once, or recv_all
\* runs to its timeout.
Latency == {0, RecvTimeout}

\* list(pending.keys()): the keys in the order of their insertion.
KeysList(pend) ==
    LET RECURSIVE firsts(_)
        firsts(k) ==
            IF k = 0 THEN << >>
            ELSE LET rest == firsts(k - 1)
                     l    == LocalOf(seeded[k])
                 IN IF l \in DOMAIN pend /\ \A j \in 1..Len(rest) : rest[j] # l
                    THEN Append(rest, l)
                    ELSE rest
    IN firsts(Len(seeded))

\* The clock is followed up to twice the total timeout; the poll compares
\* it with first_phase and total_timeout only.
ClockCap == 2 * total_timeout

Advance(t, d) == Min(t + d, ClockCap)

\* The elimination taken at the end of the first phase.
TimedOut_AtFirstPhase(elapsed) == elapsed > first_phase

\* The timeout test nested under the test of the first phase.
TimedOut_InFirstPhase(elapsed) == elapsed > total_timeout /\ elapsed <= first_phase

\* elapsed > total_timeout
TimedOut(elapsed) == elapsed > total_timeout

\* problematic.update(pending.values())
PendingValues(pend) == {pend[l] : l \in DOMAIN pend}

\* The pop left out.
Pop_Keeps(pend, local_id) == pend

\* pending.pop(local_id, None)
Pop(pend, local_id) == [l \in (DOMAIN pend) \ {local_id} |-> pend[l]]

\* "01030440000000EFF3", one hexadecimal digit per element.
READY_RESPONSE == <<0, 1, 0, 3, 0, 4, 4, 0, 0, 0, 0, 0, 0, 0, 14, 15, 15, 3>>

\* A reply of the same length with other data: "01030400000000FA33".
BusyResponse == <<0, 1, 0, 3, 0, 4, 0, 0, 0, 0, 0, 0, 0, 0, 15, 10, 3, 3>>

\* One segment of a reply as extract_meter_and_payload and decode_escapes
\* leave it: the echoed meter number (0 when the segment does not match or
\* echoes 0) and the payload in hexadecimal (empty when there is none).
Segment(meter_id, payload) == [meter_id |-> meter_id, decoded |-> payload]

\* What recv_all may return to a poll of local_id, segment by segment:
\* nothing; a busy answer; the ready answer; the ready answer cut in two
\* segments; the ready answer behind a busy one; the ready answer under the
\* meter number 0; the ready answer under the number of the next meter.
Replies(local_id) ==
    { << >>,
      <<Segment(local_id, BusyResponse)>>,
      <<Segment(local_id, READY_RESPONSE)>>,
      <<Segment(local_id, SubSeq(READY_RESPONSE, 1, 8)),
        Segment(local_id, SubSeq(READY_RESPONSE, 9, Len(READY_RESPONSE)))>>,
      <<Segment(local_id, BusyResponse), Segment(local_id, READY_RESPONSE)>>,
      <<Segment(0, READY_RESPONSE)>>,
      <<Segment(local_id + 1, READY_RESPONSE)>> }

\* Lines 139-153 on the segments: the payloads of the segments with a meter
\* number and a payload, joined.
RECURSIVE send_and_log(_)
send_and_log(segments) ==
    IF segments = << >> THEN << >>
    ELSE LET seg == Head(segments)
         IN IF seg.meter_id # 0 /\ seg.decoded # << >>
            THEN seg.decoded \o send_and_log(Tail(segments))
            ELSE send_and_log(Tail(segments))

\* sub in str
Contains(sub, str) ==
    \E i \in 0..(Len(str) - Len(sub)) :
        SubSeq(str, i + 1, i + Len(sub)) = sub

\* The reply compared for equality with the sentinel.
IsReady_Equal(decoded) == decoded = READY_RESPONSE

\* READY_RESPONSE in decoded
IsReady(decoded) == Contains(READY_RESPONSE, decoded)

\* time.sleep(delay) at the end of a round
AfterRoundSleep(t) == Advance(t, delay)

pollContext == <<durable, mainVars, socketVars, exitStatus, historyVars>>

\* `while pending:` is false.
PollAllReady ==
    /\ pc = "poll_loop"
    /\ pending = EmptyMap
    /\ pc' = "poll_ret"
    /\ sent' = {} /\ recvd' = << >>
    /\ UNCHANGED <<pollContext, pollVars>>

\* Lines 199-204: the total timeout is over, the rest is problematic.
PollTimeout ==
    /\ pc = "poll_loop"
    /\ pending # EmptyMap
    /\ TimedOut(clock)
    /\ poll_problematic' = poll_problematic \cup PendingValues(pending)
    /\ pc' = "poll_ret"
    /\ sent' = {} /\ recvd' = << >>
    /\ UNCHANGED <<pollContext, pending, pollTodo, clock, seeded, readySeen>>

\* Lines 205-208: one more round (in elimination mode after first_phase).
PollRound ==
    /\ pc = "poll_loop"
    /\ pending # EmptyMap
    /\ ~TimedOut(clock)
    /\ pollTodo' = KeysList(pending)
    /\ pc' = "poll_send"
    /\ sent' = {} /\ recvd' = << >>
    /\ UNCHANGED <<pollContext, pending, poll_problematic, clock, seeded,
                   readySeen>>

PollCmd == Cmd(CurrentSocket, Head(pollTodo), "poll", {})

\* READY_RESPONSE in decoded
PollReady ==
    /\ pc = "poll_send"
    /\ pollTodo # << >>
    /\ ValidMeterNum(Head(pollTodo))
    /\ sent' = {PollCmd}
    /\ \E reply \in Replies(Head(pollTodo)) :
          /\ IsReady(send_and_log(reply))
          /\ recvd' = reply
    /\ \E lat \in Latency : clock' = Advance(clock, lat)
    /\ pending' = Pop(pending, Head(pollTodo))
    /\ readySeen' = readySeen \cup {Head(pollTodo)}
    /\ pollTodo' = Tail(pollTodo)
    /\ UNCHANGED <<pollContext, pc, poll_problematic, seeded>>

\* A reply without READY_RESPONSE, or none at all; time.sleep(1.0).
PollBusy ==
    /\ pc = "poll_send"
    /\ pollTodo # << >>
    /\ ValidMeterNum(Head(pollTodo))
    /\ sent' = {PollCmd}
    /\ \E reply \in Replies(Head(pollTodo)) :
          /\ ~IsReady(send_and_log(reply))
          /\ recvd' = reply
    /\ \E lat \in Latency : clock' = Advance(clock, lat + BusySleep)
    /\ pollTodo' = Tail(pollTodo)
    /\ UNCHANGED <<pollContext, pc, pending, poll_problematic, seeded,
                   readySeen>>

\* send_and_log raises inside the poll.
PollRaise ==
    /\ pc = "poll_send"
    /\ pollTodo # << >>
    /\ \/ sent' = {}
       \/ /\ ValidMeterNum(Head(pollTodo))
          /\ sent' = {PollCmd}
    /\ recvd' = << >>
    /\ FailSocket

\* Lines 219-220: the round is through.
PollRoundEnd ==
    /\ pc = "poll_send"
    /\ pollTodo = << >>
    /\ clock' = IF pending # EmptyMap THEN AfterRoundSleep(clock) ELSE clock
    /\ pc' = "poll_loop"
    /\ sent' = {} /\ recvd' = << >>
    /\ UNCHANGED <<pollContext, pending, pollTodo, poll_problematic, seeded,
                   readySeen>>

\* Lines 317-321: the poll returned to calibrate_group_on_socket.
PollReturn ==
    /\ pc = "poll_ret"
    /\ LET problematic_here == poll_problematic
           newp == IF problematic_here # {}
                   THEN new_problematic \cup problematic_here
                   ELSE new_problematic
       IN /\ new_problematic' = newp
          /\ active_pairs' = IF problematic_here # {}
                             THEN RemoveProblematic(active_pairs, newp)
                             ELSE active_pairs
          /\ eliminated' = eliminated \cup problematic_here
    /\ stepPos' = stepPos + 1
    /\ pc' = "steps"
    /\ sent' = {} /\ recvd' = << >>
    /\ ResetPoll
    /\ written' = << >>
    /\ UNCHANGED <<durable, mainVars, todo, exitStatus, toolVars, config, groups, groupPrompts,
                   socketPrompts, loadedProgress, startProgress,
                   startProblematic, visits, failed>>

\* ------------------------------------------------------------------------
\* run_quant_compensation_3p4w: after the loop over the sockets
\* ------------------------------------------------------------------------
\* any() written for all().
AllSocketsDone_Any(prog, grp) ==
    \E k \in 1..Len(get_all_socket_entries) :
        per_socket_done_key(get_all_socket_entries[k], grp) \in prog.done

\* all(bool(f) for f in done_flags)
AllSocketsDone(prog, grp) ==
    \A k \in 1..Len(get_all_socket_entries) :
        per_socket_done_key(get_all_socket_entries[k], grp) \in prog.done

\* The comparison against the number of groups taken one too low.
AdvanceBookmark_OffByOne(prog, grp) ==
    IF grp < Len(CAL_GROUPS) - 1 THEN [prog EXCEPT !.cur = grp + 1] ELSE prog

\* Lines 399-405: the bookmark after a group that is done on all sockets.
AdvanceBookmark(prog, grp) ==
    IF grp < Len(CAL_GROUPS) THEN [prog EXCEPT !.cur = grp + 1] ELSE prog

\* The bookmark put back to 1 when the last group is complete.
ProgressFileAfterFinish_Restart(file, prog, grp) ==
    IF grp < Len(CAL_GROUPS) THEN save_progress(prog)
    ELSE save_progress([prog EXCEPT !.cur = 1])

\* Lines 399-406: save_progress is called behind the advance only; behind
\* the last group the document is left as it is.
ProgressFileAfterFinish(file, prog, grp) ==
    IF grp < Len(CAL_GROUPS) THEN save_progress(prog) ELSE file

\* Lines 395-412; raise SystemExit(0) on both branches.
Finish ==
    /\ pc = "sockets"
    /\ sockPos > Len(get_all_socket_entries)
    /\ IF AllSocketsDone(progress, current_group)
       THEN LET prog == AdvanceBookmark(progress, current_group)
            IN /\ progress' = prog
               /\ progressFile' = ProgressFileAfterFinish(progressFile, prog,
                                                           current_group)
       ELSE UNCHANGED <<progress, progressFile>>
    /\ pc' = "idle"
    /\ exitStatus' = "exit0"
    /\ sent' = {} /\ recvd' = << >>
    /\ UNCHANGED <<problematicFile, problematic, current_group, sockPos,
                   transportOpen, socketVars, pollVars, historyVars>>

\* The process is killed (power, operator): nothing of it is left but the
\* two documents.
Crash ==
    /\ pc # "idle"
    /\ pc' = "idle"
    /\ exitStatus' = "crashed"
    /\ progress' = load_progress(progressFile)
    /\ problematic' = load_problematic(problematicFile)
    /\ sockPos' = 1
    /\ transportOpen' = {}
    /\ sent' = {} /\ recvd' = << >>
    /\ ResetSocketRun
    /\ ResetPoll
    /\ UNCHANGED <<durable, current_group, historyVars>>

Next ==
    \/ Start
    \/ SkipSocket
    \/ OpenSocket
    \/ RunStep
    \/ ReturnFromGroup
    \/ WriteSend
    \/ WriteRaise
    \/ WriteLoopEnd
    \/ PollAllReady
    \/ PollTimeout
    \/ PollRound
    \/ PollReady
    \/ PollBusy
    \/ PollRaise
    \/ PollRoundEnd
    \/ PollReturn
    \/ Finish
    \/ Crash

Spec == Init /\ [][Next]_vars

\* ------------------------------------------------------------------------
\* The runner with a table of groups that has input_change steps
\* ------------------------------------------------------------------------
InitGate == InitState(NoProgressFile, Configured, GatedGroups)

NextGate ==
    \/ Next
    \/ GroupConfirm
    \/ StepConfirm

SpecGate == InitGate /\ [][NextGate]_vars

\* ------------------------------------------------------------------------
\* The runner under the configurations it has code for
\* ------------------------------------------------------------------------
\* config.py as it is, without METER_CONNECTIONS, with METER_COUNT 0.
Configs ==
    { Configured,
      [Configured EXCEPT !.METER_CONNECTIONS = << >>],
      [Configured EXCEPT !.METER_COUNT = 0] }

InitConfig == \E conf \in Configs : InitState(NoProgressFile, conf, CAL_GROUPS)

NextConfig ==
    \/ Next
    \/ StartConfigError

SpecConfig == InitConfig /\ [][NextConfig]_vars

\* ------------------------------------------------------------------------
\* The runner started on a progress.json that was written by hand
\* ------------------------------------------------------------------------
\* Bookmarks to start from: below the range, the last group, above the range.
EditedBookmarks == {0, Len(CAL_GROUPS), Len(CAL_GROUPS) + 1}

InitBookmark ==
    \E c \in EditedBookmarks :
        InitState([exists |-> TRUE, cur |-> c, done |-> {}], Configured, CAL_GROUPS)

SpecBookmark == InitBookmark /\ [][Next]_vars

\* ------------------------------------------------------------------------
\* poll_ready_all_localpairs on its own: one call, with a transport that
\* returns from every receive
\* ------------------------------------------------------------------------
\* The state at the first `while pending:` of a poll of group 1 (step
\* "Import Energy Quantization") on socket idx, with the meters in P
\* problematic since an earlier run and every earlier socket having raised.
PollInit ==
  /\ config = Configured
  /\ NoTools
  /\ \E idx \in SocketIdx :
      \E P \in SUBSET {meters_for_socket_index(idx)[k] :
                         k \in 1..Len(meters_for_socket_index(idx))} :
        LET pairs == InitialActivePairs(meters_for_socket_index(idx), P)
        IN /\ pairs # << >>
           /\ progressFile = NoProgressFile
           /\ problematicFile = IF P = {} THEN NoProblematicFile
                                ELSE save_problematic(P)
           /\ pc = "poll_loop"
           /\ progress = load_progress(NoProgressFile)
           /\ problematic = P
           /\ current_group = 1
           /\ sockPos = idx + 1
           /\ transportOpen = {idx}
           /\ active_pairs = pairs
           /\ new_problematic = {}
           /\ stepPos = Len(CAL_GROUPS[1])
           /\ todo = << >>
           /\ written = [k \in 1..Len(pairs) |->
                            Cmd(idx, LocalOf(pairs[k]), "write",
                                CAL_GROUPS[1][Len(CAL_GROUPS[1])].code)]
           /\ pending = PendingOf(pairs)
           /\ pollTodo = << >>
           /\ poll_problematic = {}
           /\ clock = 0
           /\ seeded = pairs
           /\ readySeen = {}
           /\ sent = {} /\ recvd = << >>
           /\ exitStatus = "running"
           /\ groups = CAL_GROUPS
           /\ groupPrompts = 0
           /\ socketPrompts = [s \in SocketIdx |-> 0]
           /\ loadedProgress = load_progress(NoProgressFile)
           /\ startProgress = load_progress(NoProgressFile)
           /\ startProblematic = P
           /\ visits = [s \in SocketIdx |-> IF s <= idx THEN 1 ELSE 0]
           /\ failed = {s \in SocketIdx : s < idx}
           /\ eliminated = {}

PollNext ==
    \/ PollAllReady
    \/ PollTimeout
    \/ PollRound
    \/ PollReady
    \/ PollBusy
    \/ PollRoundEnd

SpecPoll == PollInit /\ [][PollNext]_vars

\* The interpreter goes on with the loop as long as it has a next statement.
SpecPollLive == PollInit /\ [][PollNext]_vars /\ WF_vars(PollNext)

\* ------------------------------------------------------------------------
\* steps.py: the frames of the commands and their text
\* ------------------------------------------------------------------------
\* A bytes object is a sequence of integers 0..255 and a str the sequence of
\* the code points of its characters: "^" is 94, "h" 104, "<" 60, ">" 62,
\* "," 44, "0".."9" 48..57, "A".."F" 65..70, "a".."f" 97..102.

\* What a call gives back: a value, or the exception it raised.
Return(value) == [returned |-> value]

Raise(exception) == [raised |-> exception]

Raised(result) == "raised" \in DOMAIN result

\* a ^ b and a & b of two non-negative integers.
RECURSIVE Xor(_, _)
Xor(a, b) ==
    IF a = 0 THEN b
    ELSE IF b = 0 THEN a
    ELSE ((a + b) % 2) + 2 * Xor(a \div 2, b \div 2)

RECURSIVE BitAnd(_, _)
BitAnd(a, b) ==
    IF a = 0 \/ b = 0 THEN 0
    ELSE (a % 2) * (b % 2) + 2 * BitAnd(a \div 2, b \div 2)

\* `(crc >> 1) ^ 0xA001` with the polynomial of CRC-16/KERMIT, 0x8408.
Feedback_Kermit(shifted) == Xor(shifted, 33800)

\* `(crc >> 1) ^ 0xA001` for the shifted crc: 40961 is 0xA001.
Feedback(shifted) == Xor(shifted, 40961)

\* `for _ in range(8)` with `passes` passes to go.
RECURSIVE CrcBits(_, _)
CrcBits(crc, passes) ==
    IF passes = 0 THEN crc
    ELSE IF crc % 2 = 1 THEN CrcBits(Feedback(crc \div 2), passes - 1)
    ELSE CrcBits(crc \div 2, passes - 1)

\* `for b in data` from crc on.  The test of crc, which never fails, has
\* TLC compute crc before it goes on to the next byte.
RECURSIVE CrcFrom(_, _)
CrcFrom(crc, data) ==
    IF data = << >> \/ crc < 0 THEN crc
    ELSE CrcFrom(CrcBits(Xor(crc, Head(data)), 8), Tail(data))

\* crc starts as 0xFFFF and is cut to 16 bits on return.
crc16_fn(data) == CrcFrom(65535, data) % 65536

\* struct.pack('>H', value) and struct.pack('<H', value).
PackBE16(value) == <<value \div 256, value % 256>>

PackLE16(value) == <<value % 256, value \div 256>>

\* The digit of f"{b:02X}" for a value 0..15.
HexChar(digit) == IF digit < 10 THEN 48 + digit ELSE 55 + digit

RECURSIVE bytes_to_mcw_hex(_)
bytes_to_mcw_hex(b) ==
    IF b = << >> THEN << >>
    ELSE <<94, 104, HexChar(Head(b) \div 16), HexChar(Head(b) % 16)>>
            \o bytes_to_mcw_hex(Tail(b))

\* str(n) of an integer n >= 0.
RECURSIVE DecStr(_)
DecStr(n) == IF n < 10 THEN <<48 + n>> ELSE DecStr(n \div 10) \o <<48 + (n % 10)>>

\* build_simple_mcw with a check of meter_num that lets every number pass.
build_simple_mcw_Unchecked(meter_num, raw_bytes) ==
    Return(<<77, 67, 87>> \o DecStr(meter_num) \o <<44>>
              \o bytes_to_mcw_hex(raw_bytes))

build_simple_mcw(meter_num, raw_bytes) ==
    IF ~ValidMeterNum(meter_num) THEN Raise("ValueError")
    ELSE Return(<<77, 67, 87>> \o DecStr(meter_num) \o <<44>>
                   \o bytes_to_mcw_hex(raw_bytes))

build_modbus_read_cmd(meter_num, slave, start_addr, reg_count) ==
    LET pdu == <<slave, 3>> \o PackBE16(start_addr) \o PackBE16(reg_count)
    IN build_simple_mcw(meter_num, pdu \o PackLE16(crc16_fn(pdu)))

\* 2 ^ n.
RECURSIVE Pow2(_)
Pow2(n) == IF n = 0 THEN 1 ELSE 2 * Pow2(n - 1)

\* The position of the highest bit of n > 0.
RECURSIVE Log2(_)
Log2(n) == IF n < 2 THEN 0 ELSE 1 + Log2(n \div 2)

\* struct.pack('>f', float(f)) of an integer 0 <= f < 2^24, which a float
\* holds exactly: sign 0, exponent Log2(f) + 127, the rest of f as fraction.
PackFloat(f) ==
    LET bits == IF f = 0 THEN 0
                ELSE (Log2(f) + 127) * Pow2(23)
                        + (f - Pow2(Log2(f))) * Pow2(23 - Log2(f))
    IN PackBE16(bits \div 65536) \o PackBE16(bits % 65536)

RECURSIVE PackFloats(_)
PackFloats(floats) ==
    IF floats = << >> THEN << >>
    ELSE PackFloat(Head(floats)) \o PackFloats(Tail(floats))

build_modbus_write_multiple_float(meter_num, slave, start_addr, floats) ==
    LET reg_count == Len(floats) * 2
        byte_count == reg_count * 2
        pdu == <<slave, 16>> \o PackBE16(start_addr) \o PackBE16(reg_count)
                  \o <<byte_count>> \o PackFloats(floats)
    IN build_simple_mcw(meter_num, pdu \o PackLE16(crc16_fn(pdu)))

\* ------------------------------------------------------------------------
\* decode_escapes: the text of a reply back to bytes
\* ------------------------------------------------------------------------
\* The value of a hexadecimal digit, -1 for any other character.
HexDigit(c) ==
    IF c \in 48..57 THEN c - 48
    ELSE IF c \in 65..70 THEN c - 55
    ELSE IF c \in 97..102 THEN c - 87
    ELSE -1

\* The characters int() strips from both ends of its argument.
IsSpace(c) == c \in {9, 10, 11, 12, 13, 28, 29, 30, 31, 32, 133, 160}

\* int(s, 16) of the two characters c1 c2: two digits, a sign and a digit, or
\* a digit with white space on one side.
Int16(c1, c2) ==
    IF HexDigit(c1) >= 0 /\ HexDigit(c2) >= 0
        THEN Return(16 * HexDigit(c1) + HexDigit(c2))
    ELSE IF (c1 = 43 \/ IsSpace(c1)) /\ HexDigit(c2) >= 0
        THEN Return(HexDigit(c2))
    ELSE IF c1 = 45 /\ HexDigit(c2) >= 0
        THEN Return(0 - HexDigit(c2))
    ELSE IF HexDigit(c1) >= 0 /\ IsSpace(c2)
        THEN Return(HexDigit(c1))
    ELSE Raise("ValueError")

\* out.append(int(payload[i+2:i+4], 16)): bytearray.append raises ValueError
\* for a value outside 0..255.  Positions count from 1.
HexToken(payload, i) ==
    LET value == Int16(payload[i + 2], payload[i + 3])
    IN IF Raised(value) THEN value
       ELSE IF value.returned \notin 0..255 THEN Raise("ValueError")
       ELSE value

\* `... and i + 3 < len(payload)` asking for one character more.
StartsHexToken_OneMore(payload, i) ==
    /\ i + 1 <= Len(payload)
    /\ payload[i + 1] = 104
    /\ i + 4 <= Len(payload)

\* payload[i:i+4].startswith("^h") and i + 3 < len(payload), at a "^".
StartsHexToken(payload, i) ==
    /\ i + 1 <= Len(payload)
    /\ payload[i + 1] = 104
    /\ i + 3 <= Len(payload)

\* What one pass of `while i < len(payload)` appends and how far it moves i.
Consumed(byte, count) == [out |-> byte, used |-> count]

Literal(payload, i) == Consumed(payload[i], 1)

ControlCode(payload, i) == Consumed(BitAnd(payload[i + 1], 31), 2)

\* re.match(r"<(\d{3})>", payload[i:]) at a "<".
DecimalMatch(payload, i) ==
    /\ i + 4 <= Len(payload)
    /\ \A k \in 1..3 : payload[i + k] \in 48..57
    /\ payload[i + 4] = 62

DecimalValue(payload, i) ==
    100 * (payload[i + 1] - 48) + 10 * (payload[i + 2] - 48)
        + (payload[i + 3] - 48)

\* `if 128 <= value <= 255` letting every value pass.
InByteRange_Any(value) == TRUE

InByteRange(value) == 128 <= value /\ value <= 255

DecimalEscape(payload, i) ==
    IF DecimalMatch(payload, i) /\ InByteRange(DecimalValue(payload, i))
    THEN Consumed(DecimalValue(payload, i), 5)
    ELSE Literal(payload, i)

\* 3P3W.py: the control code is the `elif` of the test for "^h", so that a
\* "^h" whose two characters int() rejects falls through to the literal.
decode_step(payload, i) ==
    IF payload[i] = 94 THEN
        IF StartsHexToken(payload, i) THEN
            IF Raised(HexToken(payload, i)) THEN Literal(payload, i)
            ELSE Consumed(HexToken(payload, i).returned, 4)
        ELSE IF i + 1 <= Len(payload) THEN ControlCode(payload, i)
        ELSE Literal(payload, i)
    ELSE IF payload[i] = 60 THEN DecimalEscape(payload, i)
    ELSE Literal(payload, i)

\* caldone.py: the control code is an `if` of its own after the test for "^h".
caldone_decode_step(payload, i) ==
    IF payload[i] = 94 THEN
        IF StartsHexToken(payload, i) /\ ~Raised(HexToken(payload, i))
            THEN Consumed(HexToken(payload, i).returned, 4)
        ELSE IF i + 1 <= Len(payload) THEN ControlCode(payload, i)
        ELSE Literal(payload, i)
    ELSE IF payload[i] = 60 THEN DecimalEscape(payload, i)
    ELSE Literal(payload, i)

\* The passes of the loop from position i on: where each began, what it
\* appended and how many characters it took.
Pass(i, step) == [at |-> i, out |-> step.out, used |-> step.used]

RECURSIVE DecodePasses(_, _)
DecodePasses(payload, i) ==
    IF i > Len(payload) THEN << >>
    ELSE <<Pass(i, decode_step(payload, i))>>
            \o DecodePasses(payload, i + decode_step(payload, i).used)

RECURSIVE CaldoneDecodePasses(_, _)
CaldoneDecodePasses(payload, i) ==
    IF i > Len(payload) THEN << >>
    ELSE <<Pass(i, caldone_decode_step(payload, i))>>
            \o CaldoneDecodePasses(payload,
                                   i + caldone_decode_step(payload, i).used)

OutOf(passes) == [k \in 1..Len(passes) |-> passes[k].out]

\* bytes.hex().upper(): two digits per byte, each digit by its value as in
\* READY_RESPONSE.
RECURSIVE HexUpper(_)
HexUpper(b) ==
    IF b = << >> THEN << >>
    ELSE <<Head(b) \div 16, Head(b) % 16>> \o HexUpper(Tail(b))

decode_escapes(payload) == HexUpper(OutOf(DecodePasses(payload, 1)))

caldone_decode_escapes(payload) == OutOf(CaldoneDecodePasses(payload, 1))

\* ------------------------------------------------------------------------
\* The functions of the codec called one at a time
\* ------------------------------------------------------------------------
\* The longest bytes object and the longest reply text a call is made with.
MaxBytes == 2

MaxPayload == 5

\* Bytes at the edges of the ranges the codec tells apart.
ByteValues == {0, 1, 94, 127, 128, 255}

RECURSIVE Strings(_, _)
Strings(alphabet, n) ==
    IF n = 0 THEN {<< >>}
    ELSE Strings(alphabet, n - 1)
            \cup {<<c>> \o w : c \in alphabet,
                               w \in {v \in Strings(alphabet, n - 1) :
                                         Len(v) = n - 1}}

\* The frame of `write code 2023` before its CRC and the text "123456789".
KnownFrames ==
    {<<1, 16, 37, 128, 0, 2, 4, 68, 252, 224, 0>>,
     <<49, 50, 51, 52, 53, 54, 55, 56, 57>>}

ByteStrings ==
    Strings(ByteValues, MaxBytes) \cup {<<b>> : b \in 0..255} \cup KnownFrames

\* "^", "h", "<", ">", the digits "1" and "9", and "+".
PayloadChars == {94, 104, 60, 62, 49, 57, 43}

Payloads == Strings(PayloadChars, MaxPayload)

MeterNums == (0 - 1)..(config.METER_COUNT + 1)

\* Registers and values the scripts build commands for: the calibration
\* code register 0x2580, REG_CAL_DONE 0x17B8, address 0.
Addresses == {0, 6072, 9600}

Floats == {0, 1} \cup UNION {STEPS[k].code : k \in 1..Len(STEPS)}

Called(fn, args, result) ==
    [fn |-> fn, args |-> args, result |-> result, passes |-> << >>,
     of |-> << >>]

codecContext == <<durable, pc, mainVars, socketVars, pollVars, sent, recvd,
                  exitStatus, caldone, reader, error_run, config, groups, groupPrompts,
                  socketPrompts, loadedProgress, startProgress,
                  startProblematic, visits, failed, eliminated>>

CallCrc16 ==
    /\ call = NoCall
    /\ \E data \in ByteStrings :
        call' = Called("crc16_fn", <<data>>, Return(crc16_fn(data)))
    /\ UNCHANGED codecContext

CallBytesToMcwHex ==
    /\ call = NoCall
    /\ \E b \in ByteStrings :
        call' = Called("bytes_to_mcw_hex", <<b>>, Return(bytes_to_mcw_hex(b)))
    /\ UNCHANGED codecContext

CallBuildSimpleMcw ==
    /\ call = NoCall
    /\ \E meter_num \in MeterNums, raw_bytes \in Strings(ByteValues, MaxBytes) :
        call' = Called("build_simple_mcw", <<meter_num, raw_bytes>>,
                       build_simple_mcw(meter_num, raw_bytes))
    /\ UNCHANGED codecContext

CallBuildModbusReadCmd ==
    /\ call = NoCall
    /\ \E meter_num \in MeterNums, start_addr \in Addresses,
          reg_count \in {2, 18} :
        call' = Called("build_modbus_read_cmd",
                       <<meter_num, 1, start_addr, reg_count>>,
                       build_modbus_read_cmd(meter_num, 1, start_addr,
                                             reg_count))
    /\ UNCHANGED codecContext

CallBuildModbusWrite ==
    /\ call = NoCall
    /\ \E meter_num \in MeterNums, start_addr \in Addresses, f \in Floats :
        call' = Called("build_modbus_write_multiple_float",
                       <<meter_num, 1, start_addr, <<f>>>>,
                       build_modbus_write_multiple_float(meter_num, 1,
                                                         start_addr, <<f>>))
    /\ UNCHANGED codecContext

\* decode_escapes of 3P3W.py on a text a transport may hand over.
CallDecodeEscapes ==
    /\ call = NoCall
    /\ \E payload \in Payloads :
        call' = [Called("decode_escapes", <<payload>>,
                        Return(decode_escapes(payload)))
                   EXCEPT !.passes = DecodePasses(payload, 1)]
    /\ UNCHANGED codecContext

\* decode_escapes of caldone.py on the same texts.
CallCaldoneDecodeEscapes ==
    /\ call = NoCall
    /\ \E payload \in Payloads :
        call' = [Called("caldone.decode_escapes", <<payload>>,
                        Return(caldone_decode_escapes(payload)))
                   EXCEPT !.passes = CaldoneDecodePasses(payload, 1)]
    /\ UNCHANGED codecContext

\* decode_escapes of 3P3W.py on the text bytes_to_mcw_hex has just made.
DecodeEncoded ==
    /\ call.fn = "bytes_to_mcw_hex"
    /\ call' = [Called("decode_escapes", <<call.result.returned>>,
                       Return(decode_escapes(call.result.returned)))
                  EXCEPT !.passes = DecodePasses(call.result.returned, 1),
                         !.of = call.args]
    /\ UNCHANGED codecContext

CodecNext ==
    \/ CallCrc16
    \/ CallBytesToMcwHex
    \/ CallBuildSimpleMcw
    \/ CallBuildModbusReadCmd
    \/ CallBuildModbusWrite
    \/ CallDecodeEscapes
    \/ CallCaldoneDecodeEscapes
    \/ DecodeEncoded

SpecCodec == Init /\ [][CodecNext]_vars

\* ------------------------------------------------------------------------
\* caldone.py: run_caldone
\* ------------------------------------------------------------------------
\* A segment of a receive buffer as extract_meter_and_payload gives it: the
\* number after "F" (0 for None, as for the echo of a command) and the text
\* after the second comma.
Reply(meter_id, frame) ==
    [meter_id |-> meter_id, payload |-> bytes_to_mcw_hex(frame)]

\* Frames a meter may answer the read of REG_CAL_DONE with: the value 10.0
\* and the value 1.0 with their CRC; a frame cut after its byte count; one
\* cut after two data bytes; one that announces 8 data bytes and carries 4
\* and a CRC; one with byte count 2; the answer to a write.
StatusFrames ==
    {<<1, 3, 4, 65, 32, 0, 0, 239, 197>>,
     <<1, 3, 4, 63, 128, 0, 0, 247, 207>>,
     <<1, 3, 4>>,
     <<1, 3, 4, 0, 0>>,
     <<1, 3, 8, 65, 32, 0, 0, 239, 197>>,
     <<1, 3, 2, 0, 0, 184, 68>>,
     <<1, 16, 23, 184, 0, 2, 196, 89>>}

\* What transport.recv_all may return to the read of local_id: nothing, one
\* frame, a frame of the next local id, or a cut frame and then a whole one.
ReadReplies(local_id) ==
    {<< >>}
        \cup {<<Reply(local_id, frame)>> : frame \in StatusFrames}
        \cup {<<Reply(local_id + 1, <<1, 3, 4, 65, 32, 0, 0, 239, 197>>)>>,
              <<Reply(0, << >>),
                Reply(local_id, <<1, 3, 4>>),
                Reply(local_id, <<1, 3, 4, 65, 32, 0, 0, 239, 197>>)>>}

NoParams == << >>

\* Python slice b[a:b] of a bytes object (0-based, cut at its end).
BytesSlice(b, from, to) == SubSeq(b, from + 1, Min(to, Len(b)))

\* The `try:` of parse_meter_response: struct.unpack(">f", data[:4]) raises
\* struct.error for fewer than four bytes.  A float is held as its four
\* bytes.
CalStatus(data) ==
    IF Len(BytesSlice(data, 0, 4)) < 4
    THEN [error |-> "unpack requires a buffer of 4 bytes"]
    ELSE [value |-> BytesSlice(data, 0, 4)]

\* `for seg in segments` of parse_meter_response: res["params"] at its end.
RECURSIVE ParseSegments(_, _)
ParseSegments(segments, local_id) ==
    IF segments = << >> THEN NoParams
    ELSE LET seg == Head(segments)
             frame == caldone_decode_escapes(seg.payload)
         IN IF seg.meter_id # local_id \/ seg.payload = << >>
                THEN ParseSegments(Tail(segments), local_id)
            ELSE IF Len(frame) < 5
                THEN ParseSegments(Tail(segments), local_id)
            ELSE IF frame[2] # 3 \/ frame[3] < 4
                THEN ParseSegments(Tail(segments), local_id)
            ELSE [cal_status |->
                     CalStatus(BytesSlice(frame, 3, 3 + frame[3]))]

parse_meter_response(raw, local_id) ==
    IF DOMAIN ParseSegments(raw, local_id) = {}
    THEN [params |-> NoParams, error |-> "no_valid_frame"]
    ELSE [params |-> ParseSegments(raw, local_id)]

\* An entry of results; "" stands for a key that is not set.
Result(write, read_val, result) ==
    [write |-> write, read_val |-> read_val, result |-> result]

\* local_id = (global_meter - 1) % 10 + 1
caldone_local_id(global_meter) == ((global_meter - 1) % 10) + 1

\* Lines 238-244 for the parsed answer: the entry of the meter, or the
\* exception the lookup of "value" raises.
ReadOutcome(parsed) ==
    IF "error" \in DOMAIN parsed
        THEN Return(Result("OK", "ERROR", "PARAM_FAIL"))
    ELSE IF "value" \notin DOMAIN parsed.params.cal_status
        THEN Raise("KeyError")
    ELSE Return(Result("OK", parsed.params.cal_status.value,
                       IF parsed.params.cal_status.value = <<65, 32, 0, 0>>
                       THEN "CAL_SUCCESS" ELSE "CAL_FAIL"))

caldoneContext == <<durable, pc, mainVars, socketVars, pollVars, sent, recvd,
                    exitStatus, call, reader, error_run, config, groups, groupPrompts,
                    socketPrompts, loadedProgress, startProgress,
                    startProblematic, visits, failed, eliminated>>

\* run_caldone up to its loop, with `eligible` as the files give it.
CaldoneStart ==
    /\ caldone = NotRunning
    /\ \E eligible \in SUBSET (1..config.METER_COUNT) :
        caldone' = [pc |-> "loop", global_meter |-> 1, eligible |-> eligible,
                    results |-> << >>, raw_read |-> << >>, read |-> 0,
                    log |-> << >>, saved |-> FALSE]
    /\ UNCHANGED caldoneContext

\* A pass of the loop for a meter that is not eligible.
CaldoneSkip ==
    /\ caldone.pc = "loop"
    /\ caldone.global_meter <= config.METER_COUNT
    /\ caldone.global_meter \notin caldone.eligible
    /\ caldone' = [caldone EXCEPT
                     !.results = @ @@ (caldone.global_meter :>
                                          Result("SKIPPED", "", "TEST_FAIL")),
                     !.global_meter = @ + 1]
    /\ UNCHANGED caldoneContext

\* A pass of the loop for an eligible meter: the write, the read, the
\* answer raw_read and `finally: transport.close()`.
CaldoneMeter ==
    /\ caldone.pc = "loop"
    /\ caldone.global_meter <= config.METER_COUNT
    /\ caldone.global_meter \in caldone.eligible
    /\ \E raw_read \in ReadReplies(caldone_local_id(caldone.global_meter)) :
        LET global_meter == caldone.global_meter
            parsed == parse_meter_response(raw_read,
                                           caldone_local_id(global_meter))
            outcome == ReadOutcome(parsed)
        IN caldone' =
             IF Raised(outcome)
             THEN [caldone EXCEPT
                     !.pc = "raised",
                     !.results = @ @@ (global_meter :> Result("OK", "", "")),
                     !.raw_read = raw_read,
                     !.read = global_meter]
             ELSE [caldone EXCEPT
                     !.results = @ @@ (global_meter :> outcome.returned),
                     !.raw_read = raw_read,
                     !.read = global_meter,
                     !.global_meter = @ + 1]
    /\ UNCHANGED caldoneContext

\* The end of the loop: caldone_log.json is written.
CaldoneFinish ==
    /\ caldone.pc = "loop"
    /\ caldone.global_meter > config.METER_COUNT
    /\ caldone' = [caldone EXCEPT !.pc = "done", !.log = caldone.results,
                                  !.saved = TRUE]
    /\ UNCHANGED caldoneContext

CaldoneNext ==
    \/ CaldoneStart
    \/ CaldoneSkip
    \/ CaldoneMeter
    \/ CaldoneFinish

SpecCaldone == Init /\ [][CaldoneNext]_vars

\* ------------------------------------------------------------------------
\* readparameters.py: read_meter
\* ------------------------------------------------------------------------
\* decode_escapes of readparameters.py: as in 3P3W.py, without "<NNN>".
reader_decode_step(payload, i) ==
    IF payload[i] = 94 THEN
        IF StartsHexToken(payload, i) THEN
            IF Raised(HexToken(payload, i)) THEN Literal(payload, i)
            ELSE Consumed(HexToken(payload, i).returned, 4)
        ELSE IF i + 1 <= Len(payload) THEN ControlCode(payload, i)
        ELSE Literal(payload, i)
    ELSE Literal(payload, i)

RECURSIVE reader_decode_escapes(_, _)
reader_decode_escapes(payload, i) ==
    IF i > Len(payload) THEN << >>
    ELSE <<reader_decode_step(payload, i).out>>
            \o reader_decode_escapes(payload,
                                     i + reader_decode_step(payload, i).used)

\* The names of PARAM_REGS with the word validate_value finds in each.
PARAM_REGS ==
    <<[name |-> "voltage_L1", kind |-> "voltage"],
      [name |-> "voltage_L2", kind |-> "voltage"],
      [name |-> "voltage_L3", kind |-> "voltage"],
      [name |-> "current_L1", kind |-> "current"],
      [name |-> "current_L2", kind |-> "current"],
      [name |-> "current_L3", kind |-> "current"],
      [name |-> "watt_L1", kind |-> "watt"],
      [name |-> "watt_L2", kind |-> "watt"],
      [name |-> "watt_L3", kind |-> "watt"]>>

\* The bits of a float with the sign bit clear, held as four bytes.
FloatBits(b) == ((b[1] * 256 + b[2]) * 256 + b[3]) * 256 + b[4]

\* low <= value <= high for floats low, high >= 0 given by their bits: of
\* two floats with the sign bit clear the greater has the greater bits, NaN
\* has greater bits than any number, and of the floats with the sign bit
\* set only -0.0 is not below 0.0.
Within(value, low, high) ==
    IF value[1] < 128 THEN low <= FloatBits(value) /\ FloatBits(value) <= high
    ELSE low = 0 /\ value = <<128, 0, 0, 0>>

\* validate_value: 220.0 <= v <= 240.0, 4.0 <= v <= 5.5, 0.0 <= v <= 1500.0.
validate_value(kind, value) ==
    IF kind = "voltage" THEN Within(value, 1130102784, 1131413504)
    ELSE IF kind = "current"
        THEN Within(value, 1082130432, 1085276160)
    ELSE Within(value, 0, 1153138688)

\* Lines 101-110 for the 36 bytes of data.
ParamsOf(data) ==
    [i \in 1..Len(PARAM_REGS) |->
        [name |-> PARAM_REGS[i].name,
         value |-> BytesSlice(data, (i - 1) * 4, i * 4),
         warning |->
            IF validate_value(PARAM_REGS[i].kind,
                              BytesSlice(data, (i - 1) * 4, i * 4))
            THEN "" ELSE "out_of_range"]]

RECURSIVE ReaderParseSegments(_, _)
ReaderParseSegments(segments, local_id) ==
    IF segments = << >> THEN NoParams
    ELSE LET seg == Head(segments)
             frame == reader_decode_escapes(seg.payload, 1)
         IN IF seg.meter_id # local_id \/ seg.payload = << >>
                THEN ReaderParseSegments(Tail(segments), local_id)
            ELSE IF Len(frame) < 5
                THEN ReaderParseSegments(Tail(segments), local_id)
            ELSE IF frame[2] # 3 \/ frame[3] < 36
                THEN ReaderParseSegments(Tail(segments), local_id)
            ELSE IF Len(BytesSlice(frame, 3, 3 + frame[3])) < 36
                THEN ReaderParseSegments(Tail(segments), local_id)
            ELSE ParamsOf(BytesSlice(frame, 3, 3 + frame[3]))

reader_parse_meter_response(raw, local_id) ==
    IF DOMAIN ReaderParseSegments(raw, local_id) = {}
    THEN [params |-> NoParams, error |-> "no_valid_frame"]
    ELSE [params |-> ReaderParseSegments(raw, local_id)]

\* The answer of a meter to the read of 18 registers from address 0: nine
\* floats after the byte count 36, and the CRC.
ParamFrame(values) ==
    LET pdu == <<1, 3, 36>> \o PackFloats(values)
    IN pdu \o PackLE16(crc16_fn(pdu))

\* 230 V, 5 A and 1150 W on each line; the same with no voltage on L1; and
\* the first cut after 17 bytes of data.
GoodFrame == ParamFrame(<<230, 230, 230, 5, 5, 5, 1150, 1150, 1150>>)

DeadLineFrame == ParamFrame(<<0, 230, 230, 5, 5, 5, 1150, 1150, 1150>>)

CutFrame == SubSeq(GoodFrame, 1, 20)

\* What transport.recv_all may return to the read of local_id: nothing;
\* the echo alone; a whole answer; an answer cut inside its data; the
\* answer to another read; a whole answer of the next local id.
ParamReplies(local_id) ==
    {<< >>,
     <<Reply(0, << >>)>>,
     <<Reply(local_id, GoodFrame)>>,
     <<Reply(local_id, DeadLineFrame)>>,
     <<Reply(local_id, CutFrame)>>,
     <<Reply(local_id, <<1, 3, 4, 65, 32, 0, 0, 239, 197>>)>>,
     <<Reply(local_id + 1, GoodFrame)>>}

\* The default of the parameter retries of read_meter.
DefaultRetries == 3

\* `for attempt in range(retries)` going past its end by one.
AttemptsLeft_OneMore(attempt, retries) == attempt <= retries

\* `for attempt in range(retries)` has a next attempt (attempts count from 0).
AttemptsLeft(attempt, retries) == attempt < retries

readerContext == <<durable, pc, mainVars, socketVars, pollVars, sent, recvd,
                   exitStatus, call, caldone, error_run, config, groups, groupPrompts,
                   socketPrompts, loadedProgress, startProgress,
                   startProblematic, visits, failed, eliminated>>

\* read_meter is called: cmd is built, nothing is sent yet.
ReadMeter ==
    /\ reader = NotRunning
    /\ \E local_id \in 1..config.METER_COUNT, retries \in 0..DefaultRetries :
        reader' = [pc |-> "loop", local_id |-> local_id, retries |-> retries,
                   attempt |-> 0, sends |-> 0, raws |-> << >>,
                   result |-> NoParams]
    /\ UNCHANGED readerContext

\* One pass of the loop: the send, the receive, and the return or the sleep.
ReadAttempt ==
    /\ reader.pc = "loop"
    /\ AttemptsLeft(reader.attempt, reader.retries)
    /\ \E raw \in ParamReplies(reader.local_id) :
        LET res == reader_parse_meter_response(raw, reader.local_id)
        IN reader' =
             IF raw # << >> /\ DOMAIN res.params # {}
             THEN [reader EXCEPT !.pc = "returned", !.sends = @ + 1,
                                 !.raws = Append(@, raw), !.result = res]
             ELSE [reader EXCEPT !.attempt = @ + 1, !.sends = @ + 1,
                                 !.raws = Append(@, raw)]
    /\ UNCHANGED readerContext

\* The loop is over: the result with "no_response".
ReadNoResponse ==
    /\ reader.pc = "loop"
    /\ ~AttemptsLeft(reader.attempt, reader.retries)
    /\ reader' = [reader EXCEPT !.pc = "returned",
                                !.result = [error |-> "no_response"]]
    /\ UNCHANGED readerContext

ReaderNext ==
    \/ ReadMeter
    \/ ReadAttempt
    \/ ReadNoResponse

SpecReader == Init /\ [][ReaderNext]_vars

\* ------------------------------------------------------------------------
\* Properties
\* ------------------------------------------------------------------------
PersistedProgress == load_progress(progressFile)

PersistedProblematic == load_problematic(problematicFile)

\* The invocation ended with raise SystemExit(0).
Exited == pc = "idle" /\ exitStatus = "exit0"

\* The done-flags of group grp that are true in a progress document.
DoneSockets(prog, grp) == {s \in SocketIdx : <<grp, s>> \in prog.done}

\* The sockets this invocation opened a transport to.
Visited == {s \in SocketIdx : visits[s] > 0}

\* C1 -- Bookmark advance: when an invocation for group g < G exits with
\* every configured socket marked done for g, the persisted
\* current_cal_group is g + 1.
C1_BookmarkAdvance ==
    (Exited /\ current_group < NumGroups
       /\ DoneSockets(PersistedProgress, current_group) = SocketIdx)
    => PersistedProgress.cur = current_group + 1

\* An invocation that started without any progress recorded for group 1 has
\* exited with all sockets done, and the bookmark is 2.
C1_Witness ==
    /\ Exited
    /\ current_group = 1
    /\ startProgress.done = {}
    /\ DoneSockets(PersistedProgress, 1) = SocketIdx
    /\ PersistedProgress.cur = 2

\* At an exit with a socket not done: the bookmark and the added done-flags.
C2_HoldState ==
    (Exited /\ DoneSockets(PersistedProgress, current_group) # SocketIdx)
    => /\ PersistedProgress.cur = startProgress.cur
       /\ PersistedProgress.cur = current_group
       /\ PersistedProgress.done \ startProgress.done
            = {<<current_group, s>> : s \in Visited \ failed}

\* An invocation processes exactly the sockets not done at its start.
C2_RunsNotDone ==
    Exited => Visited = SocketIdx \ DoneSockets(startProgress, current_group)

\* The invocation that follows such an exit.
C2_HoldStep ==
    (Exited /\ DoneSockets(PersistedProgress, current_group) # SocketIdx
       /\ pc' # "idle")
    => /\ current_group' = current_group
       /\ startProgress'.done = PersistedProgress.done

\* C2 -- Bookmark hold: when an invocation exits with a configured socket
\* not marked done for the current group, the persisted bookmark is the one
\* it started with, the done-flags it added are exactly those of the sockets
\* it processed without an exception, the sockets it processed are exactly
\* those that were not done at its start, and the invocation that follows
\* runs the same group with the same done-flags.
C2_BookmarkHold == []C2_HoldState /\ []C2_RunsNotDone /\ [][C2_HoldStep]_vars

\* An invocation has exited in which one socket raised and another one was
\* completed.
C2_Witness ==
    /\ Exited
    /\ failed # {}
    /\ Visited \ failed # {}
    /\ DoneSockets(PersistedProgress, current_group) # SocketIdx

\* C4 -- Transport-failure isolation: a socket whose processing raised is
\* not marked done for the current group (neither in memory nor in the
\* file), no socket is processed twice in one invocation, and when the
\* invocation exits every socket that was not done at its start has been
\* processed.
C4_FailureIsolation ==
    /\ pc # "idle" =>
         \A s \in failed : <<current_group, s>> \notin progress.done
    /\ (pc # "idle" \/ Exited) =>
         \A s \in failed : <<current_group, s>> \notin PersistedProgress.done
    /\ \A s \in SocketIdx : visits[s] <= 1
    /\ Exited =>
         \A s \in SocketIdx :
            visits[s] = 1 \/ <<current_group, s>> \in startProgress.done

\* The first socket raised and a later socket was processed to its end in
\* the same invocation.
C4_Witness ==
    /\ Exited
    /\ \E s \in failed : \E t \in Visited \ failed : s < t

\* The meter that a command with local id c.local reaches on socket c.sock.
GlobalOnWire(c) == c.sock * METERS_PER_SOCKET + c.local

PairSet(pairs) == {pairs[k] : k \in 1..Len(pairs)}

\* The positions inside calibrate_group_on_socket.
InSocketRun ==
    {"steps", "step_prompt", "prewrite", "write", "poll_loop", "poll_send",
     "poll_ret"}

\* C3 -- Immediate persistence of eliminated meters: the meters a poll of
\* this invocation returned as problematic are in the persisted
\* ProblematicSet by the time a later command is sent, the socket's
\* processing has ended (with or without an exception) or the invocation
\* has exited.
C3_ImmediatePersistence ==
    (sent # {} \/ pc = "sockets" \/ Exited)
    => eliminated \subseteq PersistedProblematic

\* C5 -- Cross-run exclusion: a meter that is in the persisted
\* ProblematicSet when the invocation starts is in no active_pairs of the
\* invocation and no command of the invocation is addressed to it.
C5_CrossRunExclusion ==
    /\ \A k \in 1..Len(active_pairs) :
          GlobalOf(active_pairs[k]) \notin startProblematic
    /\ \A c \in sent : GlobalOnWire(c) \notin startProblematic

\* A command goes out on a socket one of whose meters was problematic when
\* the invocation started.
C5_Witness ==
    \E c \in sent : \E g \in startProblematic :
        /\ g >= c.sock * METERS_PER_SOCKET + 1
        /\ g <= (c.sock + 1) * METERS_PER_SOCKET

\* No command goes to a meter in new_problematic.
C6_NoSendToEliminated ==
    \A c \in sent : GlobalOnWire(c) \notin new_problematic

\* A step inside one socket's run adds nothing to active_pairs.
C6_Shrinks ==
    (pc \in InSocketRun /\ pc' \in InSocketRun)
    => PairSet(active_pairs') \subseteq PairSet(active_pairs)

\* C6 -- In-run exclusion: no command of a socket's run is addressed to a
\* meter that a poll of that run has returned as problematic, and
\* active_pairs only shrinks during the run.
C6_InRunExclusion == []C6_NoSendToEliminated /\ [][C6_Shrinks]_vars

\* A later step sends a command after a poll of the same run eliminated a
\* meter.
C6_Witness ==
    /\ pc \in InSocketRun
    /\ new_problematic # {}
    /\ sent # {}

\* C7 -- ProblematicSet monotonicity: no step of any invocation removes a
\* member from the persisted ProblematicSet.
C7_ProblematicMonotone ==
    [][PersistedProblematic \subseteq load_problematic(problematicFile')]_vars

\* An invocation that started with a non-empty persisted set has written a
\* larger one.
C7_Witness ==
    /\ startProblematic # {}
    /\ PersistedProblematic # startProblematic

\* C8 -- Rebasing invariant: every command on socket i carries
\* local = global - (i * METERS_PER_SOCKET + 1) + 1 for a global id of
\* that socket's range, so the local id is in 1..METERS_PER_SOCKET.
C8_Rebasing ==
    /\ \A c \in sent :
          /\ c.local \in 1..METERS_PER_SOCKET
          /\ \E g \in 1..METER_COUNT :
                /\ g >= c.sock * METERS_PER_SOCKET + 1
                /\ g <= (c.sock + 1) * METERS_PER_SOCKET
                /\ c.local = g - (c.sock * METERS_PER_SOCKET + 1) + 1
    /\ \A k \in 1..Len(active_pairs) :
          LocalOf(active_pairs[k])
            = GlobalOf(active_pairs[k])
                - (CurrentSocket * METERS_PER_SOCKET + 1) + 1

\* A command goes out on the second socket: its first meter, global
\* METERS_PER_SOCKET + 1, is addressed as local 1.
C8_Witness ==
    \E c \in sent : c.sock = 1 /\ c.local = 1

\* C9 -- Poll output contract: the poll returns exactly the global ids of
\* the seeded pairs that never answered ready; a non-empty result is
\* returned only after the total timeout was found exceeded; when no meter
\* answered ready the result is all seeded global ids.
C9_PollOutput ==
    pc = "poll_ret" =>
        /\ poll_problematic
             = {GlobalOf(seeded[k]) :
                  k \in {j \in 1..Len(seeded) : LocalOf(seeded[j]) \notin readySeen}}
        /\ poll_problematic # {} => clock > total_timeout
        /\ readySeen = {} =>
             poll_problematic = {GlobalOf(seeded[k]) : k \in 1..Len(seeded)}

\* A poll returns with one meter having answered ready and another one
\* eliminated.
C9_Witness ==
    /\ pc = "poll_ret"
    /\ readySeen # {}
    /\ poll_problematic # {}

\* C10 -- Poll termination: with a transport that returns from every
\* receive the poll returns, with pending empty or with the elapsed time
\* above first_phase + second_phase.
C10_PollTerminates ==
    <>(pc = "poll_ret" /\ (pending = EmptyMap \/ clock > total_timeout))

\* The poll has returned on the timeout with meters still pending.
C10_Witness ==
    /\ pc = "poll_ret"
    /\ pending # EmptyMap
    /\ clock > total_timeout

\* The longest a round can take: every seeded meter is polled, its
\* send_and_log takes the longest it can and the busy sleep follows, then
\* the sleep between the rounds.
C11_RoundSpan ==
    LET slowest == CHOOSE m \in Latency : \A x \in Latency : x <= m
    IN Len(seeded) * (slowest + BusySleep) + delay

\* No meter is problematic while the elapsed time is within the budget, and
\* an elimination comes at most one round after the budget ran out.
C11_Window ==
    /\ poll_problematic # {} => clock > total_timeout
    /\ (pc = "poll_ret" /\ poll_problematic # {}) =>
          clock <= total_timeout + C11_RoundSpan
    /\ pc = "poll_ret" => sent = {}

\* A round that starts within the budget polls every pending id and
\* eliminates none; a round that starts above it eliminates all of them and
\* sends nothing.
C11_RoundStep ==
    (pc = "poll_loop" /\ pending # EmptyMap /\ pc' # "idle") =>
        IF clock > total_timeout
        THEN /\ pc' = "poll_ret"
             /\ poll_problematic' = {pending[l] : l \in DOMAIN pending}
             /\ sent' = {}
        ELSE /\ pc' = "poll_send"
             /\ poll_problematic' = {}
             /\ pending' = pending
             /\ {pollTodo'[k] : k \in 1..Len(pollTodo')} = DOMAIN pending

\* Inside a round the next id of the round is the one polled.
C11_SendStep ==
    (pc = "poll_send" /\ pollTodo # << >> /\ pc' = "poll_send") =>
        /\ \E c \in sent' : c.kind = "poll" /\ c.local = Head(pollTodo)
        /\ pollTodo' = Tail(pollTodo)

\* C11 -- Two-phase elimination timing: no meter is declared problematic
\* while the elapsed time is at most first_phase + second_phase; between
\* first_phase and that total the poll keeps polling every remaining id;
\* a round that starts above the total eliminates every pending id and no
\* further poll command is sent; so an elimination comes no sooner than
\* first_phase + second_phase after the start and at most one round after
\* that budget ran out.
C11_TwoPhaseTiming ==
    /\ []C11_Window
    /\ [][C11_RoundStep]_vars
    /\ [][C11_SendStep]_vars

\* A meter is polled in elimination mode: first_phase is over, the total
\* timeout is not.
C11_Witness ==
    /\ pc = "poll_send"
    /\ clock > first_phase
    /\ clock <= total_timeout
    /\ \E c \in sent : c.kind = "poll"

\* The sentinel stands somewhere in the joined payloads of the reply.
C12_SentinelIn(reply) ==
    LET decoded == send_and_log(reply)
    IN \E i \in 1..Len(decoded) :
          /\ i + 17 <= Len(decoded)
          /\ \A k \in 1..18 : decoded[i + k - 1] = READY_RESPONSE[k]

\* A poll whose reply holds the sentinel takes its local id out of pending
\* in the same step, and no poll goes to an id that was taken out.
C12_PollStep ==
    \A c \in sent' :
        c.kind = "poll" =>
            /\ c.local \in DOMAIN pending
            /\ c.local \notin readySeen
            /\ C12_SentinelIn(recvd') =>
                   /\ c.local \notin DOMAIN pending'
                   /\ c.local \in readySeen'

\* C12 -- Ready detection: as soon as the decoded reply to a poll contains
\* the sentinel 01030440000000EFF3 the polled local id is removed from
\* pending and it is never polled again in this poll invocation, in
\* whichever round the sentinel arrives.
C12_ReadyDetection ==
    /\ [](DOMAIN pending \cap readySeen = {})
    /\ [][C12_PollStep]_vars

\* In a later round than the first a meter answers with the sentinel behind
\* other data, and it is out of pending.
C12_Witness ==
    /\ pc = "poll_send"
    /\ clock > Len(seeded) * (RecvTimeout + BusySleep)
    /\ C12_SentinelIn(recvd)
    /\ send_and_log(recvd) # READY_RESPONSE
    /\ \E c \in sent : c.kind = "poll" /\ c.local \notin DOMAIN pending

\* C13 -- Bookmark range: once an invocation has normalised the bookmark,
\* current_cal_group lies in [1, G] in memory and in the persisted
\* ProgressState, during the invocation and after it; a loaded value below 1
\* or above G has been reset to 1, and the reset is in the persisted
\* document before any socket is processed.
C13_BookmarkRange ==
    exitStatus # "none" =>
        /\ PersistedProgress.cur \in 1..Len(CAL_GROUPS)
        /\ progress.cur \in 1..Len(CAL_GROUPS)
        /\ current_group \in 1..Len(CAL_GROUPS)
        /\ IF loadedProgress.cur \in 1..Len(CAL_GROUPS)
           THEN startProgress = loadedProgress
           ELSE /\ startProgress = [loadedProgress EXCEPT !.cur = 1]
                /\ progressFile.exists
        /\ pc # "idle" => current_group = startProgress.cur

\* An invocation that loaded a bookmark above G works on a socket of
\* group 1.
C13_Witness ==
    /\ loadedProgress.cur > Len(CAL_GROUPS)
    /\ pc \in InSocketRun
    /\ current_group = 1
    /\ progressFile.cur = 1

\* C14 -- Skip of completed sockets: a socket that the loaded ProgressState
\* marks done for the current group gets no transport and no command in
\* this invocation.
C14_SkipCompleted ==
    exitStatus # "none" =>
        \A s \in SocketIdx :
            <<current_group, s>> \in startProgress.done =>
                /\ visits[s] = 0
                /\ s \notin transportOpen
                /\ s \notin failed
                /\ \A c \in sent : c.sock # s

\* The first socket was done when the invocation loaded the progress and a
\* command goes to the second one.
C14_Witness ==
    /\ <<current_group, 0>> \in startProgress.done
    /\ \E c \in sent : c.sock = 1

\* A transport is open while the steps of a socket run.
C15_Working == pc \in InSocketRun

\* Every socket whose steps came to their end in this invocation has its
\* done-flag in the persisted ProgressState by the time the loop is at the
\* next socket, and keeps it when the process has ended.
C15_FlagPersisted ==
    (pc # "idle" \/ Exited) =>
        \A s \in Visited \ failed :
            \/ C15_Working /\ s = CurrentSocket
            \/ <<current_group, s>> \in PersistedProgress.done

\* No step takes a done-flag out of the persisted ProgressState.
C15_FlagKept == PersistedProgress.done \subseteq PersistedProgress'.done

\* The invocation that follows does not visit a socket whose done-flag for
\* the group it runs is persisted.
C15_NextSkips ==
    (pc' # "idle") =>
        \A s \in SocketIdx :
            (<<current_group', s>> \in PersistedProgress.done /\ visits'[s] > 0)
                => visits[s] > 0

\* C15 -- Durable socket completion: when the steps of a socket end without
\* an exception its done-flag is in the persisted ProgressState before the
\* transport of the next socket is opened; no later step, a crash included,
\* takes it out, and the next invocation skips the socket.
C15_DurableCompletion ==
    /\ []C15_FlagPersisted
    /\ [][C15_FlagKept]_vars
    /\ [][C15_NextSkips]_vars

\* The first socket was completed in this invocation, its flag is
\* persisted, and the transport of the second socket is open.
C15_Witness ==
    /\ pc \in InSocketRun
    /\ transportOpen = {1}
    /\ visits[0] = 1
    /\ <<current_group, 0>> \in PersistedProgress.done \ startProgress.done

\* C16 -- Transport scoping: at most one transport is open at any time, the
\* one of the socket being processed; it is closed when the processing of
\* that socket has ended, by return or by exception, before the next one is
\* opened; a command goes out on the transport of its own socket only; no
\* transport is open when the process has exited.
C16_TransportScoping ==
    /\ Cardinality(transportOpen) <= 1
    /\ pc \in InSocketRun => transportOpen = {CurrentSocket}
    /\ pc \notin InSocketRun => transportOpen = {}
    /\ \A c \in sent :
          IF pc \in InSocketRun THEN transportOpen = {c.sock}
          ELSE c.sock \in failed

\* The first socket raised; the transport of the second is the only one
\* open.
C16_Witness ==
    /\ 0 \in failed
    /\ transportOpen = {1}
    /\ \E c \in sent : c.sock = 1

\* A socket is opened once, after every socket of a lower index that is
\* opened at all.
C17_SocketOrder ==
    \A s \in SocketIdx :
        visits'[s] > visits[s] =>
            /\ visits[s] = 0
            /\ \A t \in SocketIdx : visits[t] > 0 => t < s

\* On a socket the steps start at the first one of the group, go on one by
\* one, and the socket is left without exception after the last one only.
C17_StepOrder ==
    /\ (pc = "sockets" /\ pc' \in InSocketRun) => stepPos' = 1
    /\ (pc \in InSocketRun /\ pc' \in InSocketRun) =>
          /\ stepPos' \in {stepPos, stepPos + 1}
          /\ sockPos' = sockPos
          /\ current_group' = current_group
    /\ (pc \in InSocketRun /\ pc' = "sockets" /\ failed' = failed) =>
          stepPos = Len(CAL_GROUPS[current_group]) + 1

\* A command is the one of the step the loop stands at, on the socket the
\* loop stands at.
C17_CmdOfStep ==
    \A c \in sent' :
        /\ pc \in InSocketRun
        /\ c.sock = get_all_socket_entries[sockPos]
        /\ stepPos \in 1..Len(CAL_GROUPS[current_group])
        /\ LET step == CAL_GROUPS[current_group][stepPos]
           IN IF c.kind = "write" THEN c.code = step.code /\ c.code # {}
              ELSE step.busy_poll /\ c.code = {}

\* C17 -- Ordering: within an invocation the sockets are visited strictly
\* in the configured order; on each processed socket the steps of the
\* active group are executed strictly in the declared order, all on that
\* socket, and no step of another group comes in between.
C17_Ordering ==
    /\ [][C17_SocketOrder]_vars
    /\ [][C17_StepOrder]_vars
    /\ [][C17_CmdOfStep]_vars

\* The last write step of group 4 goes out on the second socket after the
\* first socket was visited.
C17_Witness ==
    /\ pc = "write"
    /\ sockPos = 2
    /\ visits[0] = 1
    /\ current_group = 4
    /\ stepPos = Len(CAL_GROUPS[4])
    /\ \E c \in sent : c.kind = "write" /\ c.sock = 1 /\ c.code = {909}

\* The group the invocation runs has a step with input_change.
C18_Gated ==
    \E k \in 1..Len(groups[current_group]) :
        groups[current_group][k].input_change

\* C18 -- Group-level operator barrier: an invocation whose group has a
\* step with input_change asks for the confirmation of the group exactly
\* once, and while it waits for it no transport is open, no socket was
\* visited and no command was sent; an invocation whose group has no such
\* step asks for no confirmation at all.
C18_GroupBarrier ==
    exitStatus # "none" =>
        /\ groupPrompts = IF C18_Gated THEN 1 ELSE 0
        /\ pc = "group_prompt" =>
              /\ C18_Gated
              /\ transportOpen = {}
              /\ Visited = {}
              /\ sent = {}
        /\ ~C18_Gated =>
              /\ \A s \in SocketIdx : socketPrompts[s] = 0
              /\ pc \notin {"group_prompt", "step_prompt"}

\* Group 1, gated by its second step, was confirmed once and a command is
\* on the wire.
C18_Witness ==
    /\ current_group = 1
    /\ C18_Gated
    /\ ~groups[1][1].input_change
    /\ groupPrompts = 1
    /\ sent # {}

\* Every meter of socket s is in problematic_set (so also when s has none).
C19_NoActivePair(s, problematic_set) ==
    \A k \in 1..Len(meters_for_socket_index(s)) :
        meters_for_socket_index(s)[k] \in problematic_set

\* No command and no confirmation for a socket whose meters were all
\* problematic when the invocation started.
C19_Quiet ==
    \A s \in SocketIdx :
        C19_NoActivePair(s, startProblematic) =>
            /\ \A c \in sent : c.sock # s
            /\ socketPrompts[s] = 0
            /\ s \notin failed

\* The pass of the loop that comes to such a socket marks it done and saves
\* the progress, and nothing else.
C19_Pass ==
    \A s \in SocketIdx :
        (visits'[s] > visits[s] /\ C19_NoActivePair(s, problematic)) =>
            /\ pc' = "sockets"
            /\ sent' = {}
            /\ socketPrompts' = socketPrompts
            /\ <<current_group, s>> \in progress'.done
            /\ <<current_group, s>> \in PersistedProgress'.done
            /\ problematicFile' = problematicFile

\* C19 -- Empty ActivePairs: when every meter of a socket's range is in the
\* ProblematicSet, or the socket has no meters, no command is sent on that
\* socket, no operator confirmation is requested for it, and the socket is
\* marked done for the group and persisted.
C19_EmptyActivePairs ==
    /\ []C19_Quiet
    /\ [][C19_Pass]_vars

\* In a group with an input_change step the second socket, whose only meter
\* was problematic at the start, is done without a command or a prompt.
C19_Witness ==
    /\ C18_Gated
    /\ pc = "sockets"
    /\ meters_for_socket_index(1) # << >>
    /\ C19_NoActivePair(1, startProblematic)
    /\ visits[1] = 1
    /\ socketPrompts[1] = 0
    /\ <<current_group, 1>> \in PersistedProgress.done \ startProgress.done

\* C20 -- Configuration errors are fatal: with no sockets configured, or
\* with a meter count of zero, the invocation ends with an error before it
\* loads or writes ProgressState or ProblematicSet and before it opens a
\* transport; every other attempt that completes exits with code 0.
C20_ConfigErrorsFatal ==
    /\ (config.METER_CONNECTIONS = << >> \/ config.METER_COUNT = 0) =>
          /\ pc = "idle"
          /\ exitStatus \in {"none", "error"}
          /\ progressFile = NoProgressFile
          /\ problematicFile = NoProblematicFile
          /\ transportOpen = {}
          /\ Visited = {}
          /\ sent = {}
    /\ (config.METER_CONNECTIONS # << >> /\ config.METER_COUNT # 0) =>
          exitStatus \in {"none", "running", "exit0", "crashed"}

\* The builders of steps.py that hand their meter number to build_simple_mcw.
Builders ==
    {"build_simple_mcw", "build_modbus_read_cmd",
     "build_modbus_write_multiple_float"}

\* text is "MCW", the decimal digits of meter_num, a comma, and then for
\* each byte of raw_bytes "^h" and its two upper-case hexadecimal digits.
C21_Text(text, meter_num, raw_bytes) ==
    LET head == 4 + Len(DecStr(meter_num))
    IN /\ Len(text) = head + 4 * Len(raw_bytes)
       /\ SubSeq(text, 1, 3) = <<77, 67, 87>>
       /\ SubSeq(text, 4, head - 1) = DecStr(meter_num)
       /\ text[head] = 44
       /\ \A k \in 1..Len(raw_bytes) :
            LET at == head + 4 * (k - 1)
            IN /\ text[at + 1] = 94
               /\ text[at + 2] = 104
               /\ {text[at + 3], text[at + 4]} \subseteq (48..57) \cup (65..70)
               /\ 16 * HexDigit(text[at + 3]) + HexDigit(text[at + 4])
                     = raw_bytes[k]

\* C21 -- Meter id validation: build_simple_mcw, and every builder that
\* calls it, raises the validation error exactly when the meter number is
\* below 0 or above METER_COUNT; for 0..METER_COUNT build_simple_mcw returns
\* "MCW<n>," followed by one ^hHH token per byte.
C21_MeterIdValidation ==
    call.fn \in Builders =>
        /\ Raised(call.result)
              <=> (call.args[1] < 0 \/ call.args[1] > config.METER_COUNT)
        /\ Raised(call.result) => call.result.raised = "ValueError"
        /\ (call.fn = "build_simple_mcw" /\ ~Raised(call.result))
              => C21_Text(call.result.returned, call.args[1], call.args[2])

\* build_simple_mcw has returned the command for the last local id and a
\* frame of the greatest length.
C21_Witness ==
    /\ call.fn = "build_simple_mcw"
    /\ call.args[1] = config.METER_COUNT
    /\ Len(call.args[2]) = MaxBytes
    /\ ~Raised(call.result)
    /\ Len(call.result.returned) = 5 + 4 * MaxBytes

\* CRC-16/MODBUS by its definition: the register starts with all 16 bits
\* set; the bits of the data go in one at a time, lowest bit of each byte
\* first; the register moves right by one and, when the bit that left it
\* differs from the data bit, 0xA001 is added to it bit by bit.
RECURSIVE C22_Bit(_, _, _)
C22_Bit(register, byte, bits) ==
    IF bits = 0 THEN register
    ELSE IF register % 2 # byte % 2
        THEN C22_Bit(Xor(register \div 2, 40961), byte \div 2, bits - 1)
    ELSE C22_Bit(register \div 2, byte \div 2, bits - 1)

RECURSIVE C22_Modbus(_, _)
C22_Modbus(register, data) ==
    IF data = << >> THEN register
    ELSE C22_Modbus(C22_Bit(register, Head(data), 8), Tail(data))

\* The bytes a command text made for a one-digit meter number carries.
C22_Frame(text) ==
    [k \in 1..((Len(text) - 5) \div 4) |->
        16 * HexDigit(text[5 + 4 * (k - 1) + 3])
            + HexDigit(text[5 + 4 * (k - 1) + 4])]

\* "MCW0,^h01^h10^h25^h80^h00^h02^h04^h44^hFC^hE0^h00^hC0^h5E"
C22_Unlock ==
    <<77, 67, 87, 48, 44, 94, 104, 48, 49, 94, 104, 49, 48, 94, 104, 50,
       53, 94, 104, 56, 48, 94, 104, 48, 48, 94, 104, 48, 50, 94, 104,
       48, 52, 94, 104, 52, 52, 94, 104, 70, 67, 94, 104, 69, 48, 94,
       104, 48, 48, 94, 104, 67, 48, 94, 104, 53, 69>>

\* C22 -- CRC16: crc16_fn is the Modbus CRC16, its result fits 16 bits, and
\* the builders append it low byte first; the frame 01 10 25 80 00 02 04 44
\* FC E0 00 gets C0 5E, so that the write of 2023 to 0x2580 for meter 0 is
\* the text above.
C22_Crc16 ==
    /\ call.fn = "crc16_fn" =>
          /\ call.result.returned \in 0..65535
          /\ call.result.returned = C22_Modbus(65535, call.args[1])
          /\ call.args[1] = <<49, 50, 51, 52, 53, 54, 55, 56, 57>>
                => call.result.returned = 19255
          /\ call.args[1] = <<1, 16, 37, 128, 0, 2, 4, 68, 252, 224, 0>>
                => call.result.returned = 94 * 256 + 192
    /\ (call.fn \in {"build_modbus_read_cmd",
                     "build_modbus_write_multiple_float"}
          /\ ~Raised(call.result)) =>
          LET frame == C22_Frame(call.result.returned)
              crc == C22_Modbus(65535, SubSeq(frame, 1, Len(frame) - 2))
          IN /\ frame[Len(frame) - 1] = crc % 256
             /\ frame[Len(frame)] = crc \div 256
    /\ (call.fn = "build_modbus_write_multiple_float"
          /\ call.args = <<0, 1, 9600, <<2023>>>>)
          => call.result = Return(C22_Unlock)

\* The write of 2023 to 0x2580 for meter 0 has been built, its last two
\* bytes being C0 and 5E.
C22_Witness ==
    /\ call.fn = "build_modbus_write_multiple_float"
    /\ call.args = <<0, 1, 9600, <<2023>>>>
    /\ ~Raised(call.result)
    /\ SubSeq(C22_Frame(call.result.returned), 12, 13) = <<192, 94>>

\* C23 -- Escape round trip: decode_escapes of the text bytes_to_mcw_hex
\* makes of a bytes object is the hexadecimal form of that object, two
\* digits per byte in the order of the bytes, for every byte value 0..255.
C23_RoundTrip ==
    (call.fn = "decode_escapes" /\ call.of # << >>) =>
        LET b == call.of[1]
            hex == call.result.returned
        IN /\ Len(hex) = 2 * Len(b)
           /\ \A k \in 1..Len(b) :
                /\ hex[2 * k - 1] \in 0..15
                /\ hex[2 * k] \in 0..15
                /\ 16 * hex[2 * k - 1] + hex[2 * k] = b[k]

\* The text of the bytes 5E ("^" itself) and FF has been decoded back, in
\* one pass of four characters per byte.
C23_Witness ==
    /\ call.fn = "decode_escapes"
    /\ call.of = <<<<94, 255>>>>
    /\ call.args = <<bytes_to_mcw_hex(<<94, 255>>)>>
    /\ Len(call.passes) = 2
    /\ call.result.returned = <<5, 14, 15, 15>>

\* Position at of payload starts "^h" and two hexadecimal digits.
C24_HexTokenAt(payload, at) ==
    /\ at + 3 <= Len(payload)
    /\ payload[at + 1] = 104
    /\ HexDigit(payload[at + 2]) >= 0
    /\ HexDigit(payload[at + 3]) >= 0

\* C24 -- Control-code escape: at every position the decoder comes to where
\* "^" is followed by a character X and that is not the start of "^h" with
\* two hexadecimal digits, it appends ord(X) & 0x1F and takes exactly two
\* characters, also for X = "h"; in decode_escapes of 3P3W.py and of
\* caldone.py.
C24_ControlCode ==
    call.fn \in {"decode_escapes", "caldone.decode_escapes"} =>
        LET payload == call.args[1]
        IN \A k \in 1..Len(call.passes) :
            LET p == call.passes[k]
            IN (/\ payload[p.at] = 94
                /\ p.at + 1 <= Len(payload)
                /\ ~C24_HexTokenAt(payload, p.at))
               => /\ p.out = BitAnd(payload[p.at + 1], 31)
                  /\ p.used = 2

\* The number written at at + 1 .. at + 3 of payload when "<", three decimal
\* digits and ">" stand at at, and -1 when they do not.
C25_Number(payload, at) ==
    IF /\ at + 4 <= Len(payload)
       /\ {payload[at + 1], payload[at + 2], payload[at + 3]} \subseteq 48..57
       /\ payload[at + 4] = 62
    THEN (payload[at + 1] - 48) * 100 + (payload[at + 2] - 48) * 10
            + payload[at + 3] - 48
    ELSE 0 - 1

\* C25 -- Decimal escape: at a "<" the decoder comes to, "<NNN>" with three
\* decimal digits of value 128..255 gives that one byte and takes all five
\* characters; in every other case the "<" is appended as itself and one
\* character is taken.
C25_DecimalEscape ==
    call.fn = "decode_escapes" =>
        LET payload == call.args[1]
        IN \A k \in 1..Len(call.passes) :
            LET p == call.passes[k]
            IN payload[p.at] = 60 =>
                IF C25_Number(payload, p.at) \in 128..255
                THEN p.out = C25_Number(payload, p.at) /\ p.used = 5
                ELSE p.out = 60 /\ p.used = 1

\* "<199>" has been decoded to the one byte C7.
C25_Witness ==
    /\ call.fn = "decode_escapes"
    /\ call.args = <<<<60, 49, 57, 57, 62>>>>
    /\ call.passes = <<[at |-> 1, out |-> 199, used |-> 5]>>
    /\ call.result.returned = <<12, 7>>

\* A decoded frame the claim calls short or undersized: fewer than 5
\* bytes, a byte count below the 4 bytes asked for, or fewer bytes after
\* the byte count than it announces.
C26_Malformed(frame) ==
    \/ Len(frame) < 5
    \/ frame[3] < 4
    \/ Len(frame) - 3 < frame[3]

\* The frames the last answer carries under the local id of the meter read.
C26_Frames ==
    {caldone_decode_escapes(caldone.raw_read[k].payload) :
        k \in {j \in 1..Len(caldone.raw_read) :
                 /\ caldone.raw_read[j].meter_id
                       = caldone_local_id(caldone.read)
                 /\ caldone.raw_read[j].payload # << >>}}

\* C26 -- Malformed responses are not fatal: when every frame the meter
\* answered its read with is short or undersized, run_caldone has not
\* raised and has recorded a failed read for the meter.
C26_MalformedNotFatal ==
    (/\ caldone.pc # "idle"
     /\ caldone.read # 0
     /\ C26_Frames # {}
     /\ \A frame \in C26_Frames : C26_Malformed(frame))
    => /\ caldone.pc # "raised"
       /\ caldone.results[caldone.read].result = "PARAM_FAIL"

\* An answer in which a segment under the polled id carries a frame with
\* function 3 and at least 36 bytes of data, announced and present.
C27_Parsed(raw, local_id) ==
    \E k \in 1..Len(raw) :
        LET frame == reader_decode_escapes(raw[k].payload, 1)
        IN /\ raw[k].meter_id = local_id
           /\ Len(frame) >= 3 + 36
           /\ frame[2] = 3
           /\ frame[3] >= 36

\* C27 -- Bounded read retry: read_meter sends the read command at most
\* `retries` times; it sends again only after an answer without parsed
\* parameters; it returns the result of the first answer with parsed
\* parameters, and "no_response" (raising nothing) when all `retries`
\* answers were empty or without a valid frame.
C27_BoundedRetry ==
    reader.pc # "idle" =>
        /\ reader.sends <= reader.retries
        /\ reader.sends = Len(reader.raws)
        /\ \A k \in 1..(Len(reader.raws) - 1) :
              ~C27_Parsed(reader.raws[k], reader.local_id)
        /\ reader.pc \in {"loop", "returned"}
        /\ reader.pc = "loop"
              => \A k \in 1..Len(reader.raws) :
                    ~C27_Parsed(reader.raws[k], reader.local_id)
        /\ reader.pc = "returned" =>
              IF \E k \in 1..Len(reader.raws) :
                    C27_Parsed(reader.raws[k], reader.local_id)
              THEN /\ "error" \notin DOMAIN reader.result
                   /\ Len(reader.result.params) = 9
                   /\ reader.result
                         = reader_parse_meter_response(
                               reader.raws[Len(reader.raws)], reader.local_id)
              ELSE /\ reader.sends = reader.retries
                   /\ reader.result = [error |-> "no_response"]

\* read_meter with the default of three attempts has returned the
\* parameters of the third answer, after an empty one and one cut short.
C27_Witness ==
    /\ reader.pc = "returned"
    /\ reader.retries = DefaultRetries
    /\ reader.sends = 3
    /\ reader.raws[1] = << >>
    /\ ~C27_Parsed(reader.raws[2], reader.local_id)
    /\ reader.raws[2] # << >>
    /\ C27_Parsed(reader.raws[3], reader.local_id)
    /\ "params" \in DOMAIN reader.result

\* A segment of the reply just received echoes local_id and carries the
\* sentinel.
C28_OwnSentinel(local_id) ==
    \E k \in 1..Len(recvd') :
        /\ recvd'[k].meter_id = local_id
        /\ Contains(READY_RESPONSE, recvd'[k].decoded)

\* C28 -- Response attribution in polling: a poll of the pending local id L
\* removes L from pending only when a segment of the reply that echoes L
\* carries the sentinel; a sentinel under another id, or one that only the
\* joined payloads of several segments form, leaves L pending.
C28_Attribution ==
    [][(/\ pc = "poll_send"
        /\ pollTodo # << >>
        /\ sent' = {PollCmd}
        /\ Head(pollTodo) \in DOMAIN pending
        /\ ~C28_OwnSentinel(Head(pollTodo)))
       => Head(pollTodo) \in DOMAIN pending']_vars

\* The writes of step to the local ids of pairs on socket idx, in the order
\* of pairs.
StepWrites(idx, pairs, step) ==
    [k \in 1..Len(pairs) |-> Cmd(idx, LocalOf(pairs[k]), "write", step.code)]

InPoll == pc \in {"poll_loop", "poll_send", "poll_ret"}

\* C29 -- Busy-poll step protocol: while the pre-busy writes of a step go
\* out no poll has begun and the writes so far are those to the first
\* active local ids in the order of ActivePairs; while the poll of a step
\* with a code runs, the code has been written once to every active local
\* id in that order; the poll is over the active pairs and sends to their
\* local ids only; and in the poll of a step without a code nothing has
\* been written.
C29_BusyPollProtocol ==
    /\ pc = "prewrite" =>
          /\ group_steps[stepPos].busy_poll
          /\ IsInt(group_steps[stepPos].code)
          /\ Len(written) <= Len(active_pairs)
          /\ written = SubSeq(StepWrites(CurrentSocket, active_pairs,
                                         group_steps[stepPos]),
                              1, Len(written))
          /\ NoPoll
          /\ \A c \in sent : c.kind = "write"
    /\ InPoll =>
          /\ group_steps[stepPos].busy_poll
          /\ written = IF IsInt(group_steps[stepPos].code)
                       THEN StepWrites(CurrentSocket, active_pairs,
                                       group_steps[stepPos])
                       ELSE << >>
          /\ seeded = active_pairs
          /\ DOMAIN pending \subseteq {LocalOf(active_pairs[k]) :
                                         k \in 1..Len(active_pairs)}
          /\ \A c \in sent :
                /\ c.kind = "poll"
                /\ c.local \in {LocalOf(active_pairs[k]) :
                                  k \in 1..Len(active_pairs)}

\* A poll command is out in a step with a code, after the code went to
\* each of the METERS_PER_SOCKET local ids of the socket.
C29_Witness ==
    /\ pc = "poll_send"
    /\ IsInt(group_steps[stepPos].code)
    /\ Len(written) = METERS_PER_SOCKET
    /\ \E c \in sent : c.kind = "poll"

\* The step before the one the loop over the steps stands at is through.
C30_StepDone == pc = "steps" /\ stepPos > 1

\* C30 -- Non-polling steps: while the writes of a step without busy_poll
\* go out, each went to the next active local id in order, none twice, and
\* no poll runs; when such a step is through, its code has been written
\* exactly once to every active local id and no poll has run; a step
\* without busy_poll and without a code is through with nothing sent.
C30_NonPollingSteps ==
    /\ pc = "write" =>
          /\ ~group_steps[stepPos].busy_poll
          /\ IsInt(group_steps[stepPos].code)
          /\ Len(written) <= Len(active_pairs)
          /\ written = SubSeq(StepWrites(CurrentSocket, active_pairs,
                                         group_steps[stepPos]),
                              1, Len(written))
          /\ NoPoll
          /\ \A c \in sent : c.kind = "write"
    /\ (C30_StepDone /\ ~group_steps[stepPos - 1].busy_poll) =>
          /\ written = IF IsInt(group_steps[stepPos - 1].code)
                       THEN StepWrites(CurrentSocket, active_pairs,
                                       group_steps[stepPos - 1])
                       ELSE << >>
          /\ IsInt(group_steps[stepPos - 1].code) \/ sent = {}
          /\ NoPoll

\* "Unlock Calibration" is through on a socket: 2023 went once to each of
\* its METERS_PER_SOCKET local ids and no poll ran.
C30_Witness ==
    /\ C30_StepDone
    /\ ~group_steps[stepPos - 1].busy_poll
    /\ group_steps[stepPos - 1].code = {2023}
    /\ Len(written) = METERS_PER_SOCKET
    /\ \A k \in 1..Len(written) : written[k].code = {2023}
    /\ {written[k].local : k \in 1..Len(written)} = 1..METERS_PER_SOCKET
    /\ NoPoll

\* ------------------------------------------------------------------------
\* voltage_impulse_error.py: the error measurement, one step per invocation
\* ------------------------------------------------------------------------
\* error_run.file is error_progress.json and error_run.state the dict a
\* function of the script works on.  A result is kept as the set of the
\* meters for which a value (an average, an error) that is not None is
\* recorded under its key; steps is kept as the set of its entries without
\* their timestamps.

\* Invocations of main that returned, up to which the script is followed.
MaxInvocations == 11

TOTAL_METERS == config.METER_COUNT

\* meters_per_socket of build_socket_mapping.
meters_per_socket == 10

StepEntry(typ, arg, step_no) == [typ |-> typ, arg |-> arg, step_no |-> step_no]

STEP_SEQUENCE == <<
    StepEntry("voltage", "R", 1),
    StepEntry("voltage", "Y", 2),
    StepEntry("voltage", "B", 3),
    StepEntry("impulse", "R_upf", 4),
    StepEntry("impulse", "R_lag", 5),
    StepEntry("impulse", "Y_upf", 6),
    StepEntry("impulse", "Y_lag", 7),
    StepEntry("impulse", "B_upf", 8),
    StepEntry("impulse", "B_lag", 9),
    StepEntry("write_calibration", "None", 10) >>

\* The keys of WRITE_ADDRS in the order of the dict.
WRITE_ADDRS == <<"unlock", "R_upf", "R_lag", "R_volt", "Y_upf", "Y_lag",
                 "Y_volt", "B_upf", "B_lag", "B_volt", "compute",
                 "save_coeff">>

\* alias.get(key, key) of main.
alias(key) ==
    CASE key = "R_volt" -> "Voltage_R"
      [] key = "Y_volt" -> "Voltage_Y"
      [] key = "B_volt" -> "Voltage_B"
      [] OTHER -> key

\* f"Voltage_{phase}"
VoltageKey(phase) ==
    CASE phase = "R" -> "Voltage_R"
      [] phase = "Y" -> "Voltage_Y"
      [] OTHER -> "Voltage_B"

load_state(file) ==
    IF file.exists
    THEN [completed_step |-> file.completed_step, results |-> file.results,
          steps |-> file.steps]
    ELSE [completed_step |-> 0, results |-> << >>, steps |-> {}]

save_state(state) ==
    [exists |-> TRUE, completed_step |-> state.completed_step,
     results |-> state.results, steps |-> state.steps]

\* log_step without its save_state.
log_step(state, step_no) ==
    [state EXCEPT !.steps = @ \cup {[step_no |-> step_no, status |-> "pending"]}]

\* complete_step without its save_state.
complete_step(state, step_no) ==
    [state EXCEPT !.steps = {IF e.step_no = step_no
                             THEN [e EXCEPT !.status = "done"] ELSE e : e \in @},
                  !.completed_step = step_no]

\* state["results"].setdefault(key, {})[f"meter_{meter}"] = ...: meter is
\* put under key, with a value or with None.
SetResult(results, key, meter, has_value) ==
    [k \in DOMAIN results \cup {key} |->
        LET before == IF k \in DOMAIN results THEN results[k] ELSE {}
        IN IF k # key THEN before
           ELSE IF has_value THEN before \cup {meter} ELSE before \ {meter}]

\* The ranges of build_socket_mapping from socket k on, current_meter being
\* current: range(start, stop) for each socket up to the break.
RECURSIVE SocketRanges(_, _, _)
SocketRanges(k, current, total_meters) ==
    IF k > Len(get_all_socket_entries) THEN << >>
    ELSE LET stop == Min(current + meters_per_socket, total_meters + 1)
         IN <<[sock |-> get_all_socket_entries[k], start |-> current,
               stop |-> stop]>>
            \o (IF stop > total_meters THEN << >>
                ELSE SocketRanges(k + 1, stop, total_meters))

build_socket_mapping(total_meters) == SocketRanges(1, 1, total_meters)

\* _find_socket_for_meter: the first range with the meter in it.
find_socket_for_meter(meter, socket_map) ==
    LET hits == {k \in 1..Len(socket_map) :
                    socket_map[k].start <= meter /\ meter < socket_map[k].stop}
    IN IF hits = {} THEN Raise("ValueError")
       ELSE LET k == CHOOSE h \in hits : \A j \in hits : h <= j
            IN Return([sock |-> socket_map[k].sock,
                       local_meter |-> meter - socket_map[k].start + 1])

\* A command given to send_mcw: a read of a meter, the setup of a socket
\* for the impulse measurement, a write to a meter.
ErrCmd(kind, sock, local) == [kind |-> kind, sock |-> sock, local |-> local]

MeterCmd(kind, meter) ==
    LET found == find_socket_for_meter(meter, build_socket_mapping(TOTAL_METERS))
    IN ErrCmd(kind, found.returned.sock, found.returned.local_meter)

\* The first entry of STEP_SEQUENCE main does not pass over, 0 if none.
NextEntry(completed) ==
    LET left == {k \in 1..Len(STEP_SEQUENCE) :
                    ~(STEP_SEQUENCE[k].step_no <= completed)}
    IN IF left = {} THEN 0 ELSE CHOOSE k \in left : \A j \in left : k <= j

\* The meters that give a usable value during one measurement: none, all.
Answering == {{}, 1..TOTAL_METERS}

errorContext == <<durable, pc, mainVars, socketVars, pollVars, sent, recvd,
                  exitStatus, call, caldone, reader, config, groups,
                  groupPrompts, socketPrompts, loadedProgress, startProgress,
                  startProblematic, visits, failed, eliminated>>

\* How an invocation ends: main returned, or an exception ended the process.
Returned(run) ==
    [run EXCEPT !.pc = "idle", !.exit = "returned", !.returned = @ + 1]

RaisedOut(run) == [run EXCEPT !.pc = "idle", !.exit = "raised"]

\* main up to the call of the step's function (lines 377-389), or to its
\* end when every step is passed over.
ErrStart ==
    /\ error_run.pc = "idle"
    /\ error_run.returned < MaxInvocations
    /\ LET state == load_state(error_run.file)
           completed == state.completed_step
           k == NextEntry(completed)
           begun == [error_run EXCEPT !.state = state, !.step = k,
                                      !.meter = 1, !.answering = {},
                                      !.sent = {}, !.loaded = completed,
                                      !.exit = "running",
                                      !.ran = IF k = 0 THEN {}
                                              ELSE {STEP_SEQUENCE[k].step_no}]
       IN error_run' =
            IF k = 0 THEN Returned(begun)
            ELSE [begun EXCEPT !.pc = IF STEP_SEQUENCE[k].typ = "write_calibration"
                                      THEN "write_calibration" ELSE "measure"]
    /\ UNCHANGED errorContext

Entry == STEP_SEQUENCE[error_run.step]

\* The first lines of measure_voltage_phase_all_meters (230-233) and of
\* measure_impulse_for_key (262-266): the state is loaded again, the step is
\* logged as pending and saved; the impulse measurement opens its transports.
MeasureBegin ==
    /\ error_run.pc = "measure"
    /\ \E answering \in Answering :
        LET state == log_step(load_state(error_run.file), Entry.step_no)
        IN error_run' = [error_run EXCEPT !.state = state,
                                          !.file = save_state(state),
                                          !.answering = answering,
                                          !.meter = 1,
                                          !.pc = Entry.typ]
    /\ UNCHANGED errorContext

\* open_transport raises in line 265, before the try.
ImpulseOpenRaise ==
    /\ error_run.pc = "measure"
    /\ Entry.typ = "impulse"
    /\ LET state == log_step(load_state(error_run.file), Entry.step_no)
       IN error_run' = RaisedOut([error_run EXCEPT !.state = state,
                                                   !.file = save_state(state)])
    /\ UNCHANGED errorContext

\* One pass of `for meter in range(1, TOTAL_METERS + 1)` (lines 235-251):
\* ten reads, the result of the meter put into state.
VoltageMeter ==
    /\ error_run.pc = "voltage"
    /\ error_run.meter <= TOTAL_METERS
    /\ ~Raised(find_socket_for_meter(error_run.meter,
                                     build_socket_mapping(TOTAL_METERS)))
    /\ LET meter == error_run.meter
       IN error_run' =
            [error_run EXCEPT
                !.sent = @ \cup {MeterCmd("read", meter)},
                !.state.results = SetResult(@, VoltageKey(Entry.arg), meter,
                                            meter \in error_run.answering),
                !.meter = meter + 1]
    /\ UNCHANGED errorContext

\* An exception inside measure_voltage_phase_all_meters: nothing catches it.
VoltageRaise ==
    /\ error_run.pc = "voltage"
    /\ error_run' = RaisedOut(error_run)
    /\ UNCHANGED errorContext

\* Lines 253-256 and the return of main.
VoltageEnd ==
    /\ error_run.pc = "voltage"
    /\ error_run.meter > TOTAL_METERS
    /\ LET state == complete_step(error_run.state, Entry.step_no)
       IN error_run' = Returned([error_run EXCEPT !.state = state,
                                                  !.file = save_state(state)])
    /\ UNCHANGED errorContext

\* The sockets of the mapping, each of which gets IMPULSE_SETUP_COMMANDS.
SetupCmds ==
    {ErrCmd("setup", build_socket_mapping(TOTAL_METERS)[k].sock, 0) :
        k \in 1..Len(build_socket_mapping(TOTAL_METERS))}

\* Lines 269-272.
ImpulseSetup ==
    /\ error_run.pc = "impulse"
    /\ error_run.meter = 1
    /\ error_run' = [error_run EXCEPT !.sent = @ \cup SetupCmds, !.meter = 2]
    /\ UNCHANGED errorContext

\* The results of the key as the loop of lines 302-305 writes them.
RECURSIVE Collected(_, _, _, _)
Collected(results, key, meter, answering) ==
    IF meter = 0 THEN results
    ELSE SetResult(Collected(results, key, meter - 1, answering), key, meter,
                   meter \in answering)

\* Lines 274-308 without an exception, the finally-branch and the return
\* of main: the values are collected, saved, the step is completed (twice).
ImpulseEnd ==
    /\ error_run.pc = "impulse"
    /\ error_run.meter = 2
    /\ LET measured == [error_run.state EXCEPT
                          !.results = Collected(@, Entry.arg, TOTAL_METERS,
                                                error_run.answering)]
           state == complete_step(complete_step(measured, Entry.step_no),
                                  Entry.step_no)
       IN error_run' = Returned([error_run EXCEPT !.state = state,
                                                  !.file = save_state(state)])
    /\ UNCHANGED errorContext

\* What the finally-branch of measure_impulse_for_key (lines 310-314) leaves
\* in error_progress.json when the try-block raised: save_state(state) and
\* complete_step(state, step_no) run behind the close of the transports.
FinallyAfterRaise(state, step_no) ==
    save_state(complete_step(state, step_no))

\* An exception inside the try-block of measure_impulse_for_key (send_mcw,
\* recv_all): the finally-branch runs and the exception goes on; or close()
\* raises in the finally-branch, which ends there.
ImpulseRaise ==
    /\ error_run.pc = "impulse"
    /\ \/ error_run' =
            RaisedOut([error_run EXCEPT
                          !.state = complete_step(@, Entry.step_no),
                          !.file = FinallyAfterRaise(error_run.state,
                                                     Entry.step_no)])
       \/ error_run' = RaisedOut(error_run)
    /\ UNCHANGED errorContext

\* errors of main for a meter: the keys of WRITE_ADDRS under whose alias the
\* results main loaded hold a value of the meter.
ErrorsOf(results, meter) ==
    {WRITE_ADDRS[k] : k \in {j \in 1..Len(WRITE_ADDRS) :
        /\ alias(WRITE_ADDRS[j]) \in DOMAIN results
        /\ meter \in results[alias(WRITE_ADDRS[j])]}}

\* One pass of `for meter in range(1, TOTAL_METERS + 1)` of main (lines
\* 402-422): write_three_measurement_cal if there is an error to write.
WriteCalibrationMeter ==
    /\ error_run.pc = "write_calibration"
    /\ error_run.meter <= TOTAL_METERS
    /\ LET meter == error_run.meter
       IN error_run' =
            [error_run EXCEPT
                !.sent = IF ErrorsOf(error_run.state.results, meter) # {}
                         THEN @ \cup {MeterCmd("write", meter)}
                         ELSE @,
                !.meter = meter + 1]
    /\ UNCHANGED errorContext

\* An exception inside write_three_measurement_cal.
WriteCalibrationRaise ==
    /\ error_run.pc = "write_calibration"
    /\ error_run.meter <= TOTAL_METERS
    /\ ErrorsOf(error_run.state.results, error_run.meter) # {}
    /\ error_run' = RaisedOut(error_run)
    /\ UNCHANGED errorContext

\* Lines 424-425: the log line and the return; no call of complete_step.
WriteCalibrationEnd ==
    /\ error_run.pc = "write_calibration"
    /\ error_run.meter > TOTAL_METERS
    /\ error_run' = Returned(error_run)
    /\ UNCHANGED errorContext

ErrorRunNext ==
    \/ ErrStart
    \/ MeasureBegin
    \/ ImpulseOpenRaise
    \/ VoltageMeter
    \/ VoltageRaise
    \/ VoltageEnd
    \/ ImpulseSetup
    \/ ImpulseEnd
    \/ ImpulseRaise
    \/ WriteCalibrationMeter
    \/ WriteCalibrationRaise
    \/ WriteCalibrationEnd

SpecErrorRun == Init /\ [][ErrorRunNext]_vars

\* ------------------------------------------------------------------------
\* Restarts of the runner
\* ------------------------------------------------------------------------
\* A step that is a failure: the process is killed, or a send_and_log of
\* the socket's transport raises.
Fault ==
    \/ Crash
    \/ WriteRaise
    \/ PollRaise

\* The runner is started again whenever it is not running, and a running
\* process goes on with its next statement.
SpecRestart == Init /\ [][Next]_vars /\ WF_vars(Next /\ ~Fault)

\* Every done-flag of the groups 1..G is true in progress.json and the
\* bookmark is G.
AllGroupsDone ==
    /\ \A g \in 1..NumGroups : DoneSockets(PersistedProgress, g) = SocketIdx
    /\ PersistedProgress.cur = NumGroups

\* A done-flag of group g is in progress.json only with every done-flag of
\* the groups before g.
GroupsInOrder ==
    \A g \in 1..NumGroups :
        DoneSockets(PersistedProgress, g) # {}
        => \A h \in 1..(g - 1) : DoneSockets(PersistedProgress, h) = SocketIdx

\* C31 -- Restart liveness: from empty persisted state, under repeated
\* invocations with crashes and transport failures that eventually stop,
\* every (group, socket) done-flag of the groups 1..G is eventually set and
\* the bookmark eventually is G, the groups being completed in the order
\* 1, 2, ..., G.
C31_RestartLiveness ==
    /\ (<>[][~Fault]_vars) => <>AllGroupsDone
    /\ []GroupsInOrder

\* progress.json holds every done-flag and the bookmark G at the exit of
\* the invocation that ran the last group.
C31_Witness ==
    /\ AllGroupsDone
    /\ Exited

\* C32 -- Group order invariant: from empty persisted state and without
\* external edits, in every persisted progress.json a done-flag of (g, s)
\* being set implies that the done-flags of every configured socket are set
\* for every group below g, and the bookmark being g implies that all
\* sockets are done for all groups below g.
C32_GroupOrder ==
    /\ \A g \in 1..NumGroups : \A s \in SocketIdx :
          per_socket_done_key(s, g) \in PersistedProgress.done
          => \A h \in 1..(g - 1) : \A t \in SocketIdx :
                per_socket_done_key(t, h) \in PersistedProgress.done
    /\ \A h \in 1..(PersistedProgress.cur - 1) : \A t \in SocketIdx :
          per_socket_done_key(t, h) \in PersistedProgress.done

\* The bookmark is at the last group, of which one socket is done and the
\* other raised in the running invocation.
C32_Witness ==
    /\ PersistedProgress.cur = NumGroups
    /\ DoneSockets(PersistedProgress, NumGroups) \notin {{}, SocketIdx}
    /\ failed # {}

\* ------------------------------------------------------------------------
\* The runner started on a progress.json with done-flags and a bookmark
\* above the range
\* ------------------------------------------------------------------------
\* Every done-flag there is.
AllKeys == {per_socket_done_key(s, g) : s \in SocketIdx, g \in 1..NumGroups}

\* The done-flags to start from: one socket of group 1 and the other socket
\* of group 2; all of them.
EditedFlags ==
    { {per_socket_done_key(0, 1), per_socket_done_key(NumSockets - 1, 2)},
      AllKeys }

InitReset ==
    \E flags \in EditedFlags :
        InitState([exists |-> TRUE, cur |-> Len(CAL_GROUPS) + 1, done |-> flags],
                  Configured, CAL_GROUPS)

SpecReset == InitReset /\ [][Next]_vars

\* The process is inside calibrate_group_on_socket or the poll it calls.
Executing ==
    pc \in {"steps", "step_prompt", "prewrite", "write", "poll_loop",
            "poll_send", "poll_ret"}

\* No step removes a done-flag from progress.json.
C33_FlagsKept ==
    PersistedProgress.done \subseteq PersistedProgress'.done

\* The bookmark of progress.json against the one the invocation loaded.
C33_BookmarkStep ==
    loadedProgress.cur \in 1..NumGroups
    => PersistedProgress.cur \in {loadedProgress.cur, loadedProgress.cur + 1}

\* The group is not executed on a socket whose done-flag for it is set.
C33_NotAgain ==
    Executing => CurrentKey \notin PersistedProgress.done

\* C33 -- Progress monotonicity: no invocation clears or removes a done-flag
\* that is set in the persisted progress, and when the loaded bookmark is in
\* 1..G the persisted bookmark is the loaded one or exactly one greater;
\* a (group, socket) pair once marked done is never executed again, even
\* after the bookmark is reset to 1.
C33_Monotone ==
    /\ [][C33_FlagsKept]_vars
    /\ [](C33_BookmarkStep /\ C33_NotAgain)

\* Behind the reset of the bookmark to 1 the invocation has passed over the
\* socket of group 1 that is marked done, without opening it, and executes
\* the group on the other socket.
C33_Witness ==
    /\ loadedProgress.cur = NumGroups + 1
    /\ current_group = 1
    /\ PersistedProgress.cur = 1
    /\ Executing
    /\ CurrentSocket # 0
    /\ visits[0] = 0
    /\ per_socket_done_key(0, 1) \in PersistedProgress.done

\* The running or last invocation loaded the bookmark G with every socket
\* marked done for G.
LoadedComplete ==
    /\ exitStatus # "none"
    /\ loadedProgress.cur = NumGroups
    /\ DoneSockets(loadedProgress, NumGroups) = SocketIdx

\* C34 -- Idempotence after full completion: when the persisted bookmark is
\* G and every configured socket is marked done for G, an invocation opens
\* no transport, sends no command, leaves progress.json and
\* problematic_meters.json unchanged (the bookmark stays at G, it is not
\* reset to 1) and exits with code 0.
C34_Idempotent ==
    LoadedComplete =>
        /\ transportOpen = {}
        /\ Visited = {}
        /\ ~Executing
        /\ sent = {}
        /\ PersistedProgress = loadedProgress
        /\ PersistedProgress.cur = NumGroups
        /\ PersistedProblematic = startProblematic
        /\ exitStatus \in {"running", "exit0", "crashed"}
        /\ (pc = "idle" /\ exitStatus # "crashed") => exitStatus = "exit0"

\* The invocation that found everything done has exited, with meters
\* recorded as problematic by the invocations before it.
C34_Witness ==
    /\ LoadedComplete
    /\ Exited
    /\ sockPos > Len(get_all_socket_entries)
    /\ PersistedProblematic # {}

\* The meters of the running socket that are active: those of its range
\* that were not problematic when the socket was entered and that no poll
\* of this run eliminated.
StillActive ==
    LET global_meter_list == meters_for_socket_index(CurrentSocket)
    IN {global_meter_list[k] : k \in 1..Len(global_meter_list)}
          \ (problematic \cup new_problematic)

\* Behind an elimination the run of the socket works with exactly the
\* meters still active, and a command goes to one of them only.
C35_ActiveOnly ==
    (Executing /\ new_problematic # {}) =>
        /\ {GlobalOf(active_pairs[k]) : k \in 1..Len(active_pairs)} = StillActive
        /\ \A c \in sent :
              \E k \in 1..Len(active_pairs) : LocalOf(active_pairs[k]) = c.local

\* Behind an elimination a step of the run goes on inside the run, or is a
\* kill or a raising send, or is the return behind the last step of the
\* group: the new problematic meters are saved and the socket is marked done.
C35_GoesOn ==
    (Executing /\ new_problematic # {}) =>
        \/ Executing' /\ stepPos' \in {stepPos, stepPos + 1}
        \/ exitStatus' = "crashed"
        \/ failed' # failed
        \/ /\ stepPos = Len(group_steps) + 1
           /\ pc' = "sockets"
           /\ CurrentKey \in PersistedProgress'.done
           /\ new_problematic \subseteq PersistedProblematic'

\* C35 -- Elimination is not a failure: if the poll eliminates some or all
\* of a socket's active meters during its run, the remaining steps still
\* execute (sending commands only to the meters still active, possibly
\* none), the socket is marked done for the group, and the bookmark can
\* advance on that basis.
C35_EliminationNotFailure ==
    /\ []C35_ActiveOnly
    /\ [][C35_GoesOn]_vars

\* The invocation has exited with the bookmark advanced although its polls
\* eliminated every meter of the first socket.
C35_Witness ==
    /\ Exited
    /\ failed = {}
    /\ PersistedProgress.cur = current_group + 1
    /\ DoneSockets(PersistedProgress, current_group) = SocketIdx
    /\ \A k \in 1..Len(meters_for_socket_index(0)) :
          meters_for_socket_index(0)[k] \in eliminated

\* ------------------------------------------------------------------------
\* The commands the runner builds, for every meter count config.py accepts
\* ------------------------------------------------------------------------
\* maxvalue of the meter-count dialog of config.py.
MaxMeterCount == 20

SLAVE_ID == 1

\* ADDR_9601 = 0x2580
ADDR_9601 == 9600

\* REG_CAL_DONE = 0x17B8
REG_CAL_DONE == 6072

InitLocals ==
    \E n \in 1..MaxMeterCount :
        InitState(NoProgressFile, [Configured EXCEPT !.METER_COUNT = n],
                  CAL_GROUPS)

\* The pairs calibrate_group_on_socket may work with on socket idx: those
\* of its range without the meters in P, which are problematic.
PairsOf(idx, P) == InitialActivePairs(meters_for_socket_index(idx), P)

MetersOf(idx) ==
    {meters_for_socket_index(idx)[k] :
        k \in 1..Len(meters_for_socket_index(idx))}

\* The command of a write loop of calibrate_group_on_socket (lines 311-313
\* and write_code_local) for a pair of socket idx and the code of a step.
BuildWrite ==
    /\ call = NoCall
    /\ \E idx \in SocketIdx : \E P \in SUBSET MetersOf(idx) :
        \E k \in 1..Len(PairsOf(idx, P)) :
          \E code \in UNION {STEPS[j].code : j \in 1..Len(STEPS)} :
            LET local == LocalOf(PairsOf(idx, P)[k])
            IN call' = [Called("build_modbus_write_multiple_float",
                               <<local, SLAVE_ID, ADDR_9601, <<code>>>>,
                               build_modbus_write_multiple_float(
                                   local, SLAVE_ID, ADDR_9601, <<code>>))
                          EXCEPT !.of = <<idx, P>>]
    /\ UNCHANGED codecContext

\* The command of poll_ready_all_localpairs (line 209) for a local id of
\* the pairs it was called with.
BuildPoll ==
    /\ call = NoCall
    /\ \E idx \in SocketIdx : \E P \in SUBSET MetersOf(idx) :
        \E local_id \in DOMAIN PendingOf(PairsOf(idx, P)) :
            call' = [Called("build_modbus_read_cmd",
                            <<local_id, SLAVE_ID, REG_CAL_DONE, 2>>,
                            build_modbus_read_cmd(local_id, SLAVE_ID,
                                                  REG_CAL_DONE, 2))
                       EXCEPT !.of = <<idx, P>>]
    /\ UNCHANGED codecContext

LocalsNext ==
    \/ BuildWrite
    \/ BuildPoll

SpecLocals == InitLocals /\ [][LocalsNext]_vars

\* C36 -- Orchestrator commands pass encode validation: for every
\* METER_COUNT in 1..20 and every socket index, each local id the
\* orchestrator passes to the command builders of steps.py satisfies
\* 1 <= local <= METER_COUNT, so build_simple_mcw never raises during a
\* socket's step sequence.
C36_LocalIdsValid ==
    call # NoCall =>
        /\ call.args[1] >= 1
        /\ call.args[1] <= config.METER_COUNT
        /\ ~Raised(call.result)

\* A write to the meter whose local id is METER_COUNT itself, the highest
\* number build_simple_mcw accepts, with more than one meter configured.
C36_Witness ==
    /\ call # NoCall
    /\ call.fn = "build_modbus_write_multiple_float"
    /\ call.args[1] = config.METER_COUNT
    /\ config.METER_COUNT > 1
    /\ ~Raised(call.result)

\* completed_step of error_progress.json.
PersistedStep == load_state(error_run.file).completed_step

\* C37 -- Step completion requires success: in voltage_impulse_error a step
\* number is written to the persisted completed_step only after that step's
\* measurement ran to its end without raising; if measure_impulse_for_key or
\* measure_voltage_phase_all_meters raises, completed_step is unchanged and
\* the next invocation of main runs the same step again.
C37_CompletionRequiresSuccess ==
    error_run.exit = "raised" =>
        /\ PersistedStep = error_run.loaded
        /\ NextEntry(PersistedStep) = error_run.step

\* C38 -- One step per invocation: each failure-free invocation of main
\* executes exactly the lowest-numbered step of STEP_SEQUENCE above the
\* persisted completed_step and raises completed_step to that step's number,
\* so that after ten failure-free invocations completed_step is 10 and every
\* further invocation executes no step and sends no command.
C38_OneStepPerInvocation ==
    /\ error_run.exit = "returned" =>
          IF NextEntry(error_run.loaded) = 0
          THEN error_run.ran = {} /\ error_run.sent = {}
          ELSE /\ error_run.ran = {STEP_SEQUENCE[NextEntry(error_run.loaded)].step_no}
               /\ PersistedStep = STEP_SEQUENCE[NextEntry(error_run.loaded)].step_no
    /\ error_run.returned >= Len(STEP_SEQUENCE) =>
          PersistedStep = Len(STEP_SEQUENCE)
    /\ error_run.returned > Len(STEP_SEQUENCE) =>
          error_run.ran = {} /\ error_run.sent = {}

====
